---------------------------- MODULE Spec2Model ----------------------------
(***************************************************************************)
(* A model of the backtesting engine of src/simulator.py (Simulator), its  *)
(* value objects (src/models.py) and the session runner of                  *)
(* src/backtest.py.                                                         *)
(*                                                                          *)
(* Prices, cash and PnL are Python/numpy floats in the source.  They are    *)
(* modelled as exact rationals <<n, d>> (d > 0, lowest terms); the three    *)
(* non-finite floats are <<1, 0>> (inf), <<-1, 0>> (-inf) and <<0, 0>>      *)
(* (nan), with numpy's rules for them.  Rounding error is not modelled.     *)
(* Bar indices are 0-based as in the source.                                *)
(***************************************************************************)
EXTENDS Integers, Sequences, FiniteSets, TLC

(***************************************************************************)
(* Bounds of the model.                                                     *)
(***************************************************************************)
\* number of bars of the session (length of the time index)
NumBars == 3
\* most orders callers place in one behaviour
MaxOrders == 3
\* the same, where the engine's queries are called between the orders
MaxQueryOrders == 2

(***************************************************************************)
(* Float arithmetic (numpy float64, as exact rationals).                    *)
(***************************************************************************)
Abs(x) == IF x < 0 THEN -x ELSE x

Sgn(x) == IF x < 0 THEN -1 ELSE IF x > 0 THEN 1 ELSE 0

RECURSIVE GCD(_, _)
GCD(a, b) == IF b = 0 THEN a ELSE GCD(b, a % b)

NaN == <<0, 0>>

Inf == <<1, 0>>

NegInf == <<-1, 0>>

IsNaN(x) == x = NaN

IsFinite(x) == x[2] > 0

\* the float n/d, d > 0, in lowest terms
Norm(n, d) == LET g == GCD(Abs(n), d) IN <<n \div g, d \div g>>

RInt(k) == <<k, 1>>

RNeg(a) == <<-a[1], a[2]>>

RAdd(a, b) ==
    IF IsNaN(a) \/ IsNaN(b) THEN NaN
    ELSE IF ~IsFinite(a) /\ ~IsFinite(b) THEN (IF a = b THEN a ELSE NaN)
    ELSE IF ~IsFinite(a) THEN a
    ELSE IF ~IsFinite(b) THEN b
    ELSE LET g == GCD(a[2], b[2])
             l == (a[2] \div g) * b[2]
         IN  Norm(a[1] * (l \div a[2]) + b[1] * (l \div b[2]), l)

RSub(a, b) == RAdd(a, RNeg(b))

RMul(a, b) ==
    IF IsNaN(a) \/ IsNaN(b) THEN NaN
    ELSE IF ~IsFinite(a) \/ ~IsFinite(b)
         THEN (IF a[1] = 0 \/ b[1] = 0 THEN NaN ELSE <<Sgn(a[1]) * Sgn(b[1]), 0>>)
    ELSE LET g1 == GCD(Abs(a[1]), b[2])
             g2 == GCD(Abs(b[1]), a[2])
         IN  IF a[1] = 0 \/ b[1] = 0 THEN <<0, 1>>
             ELSE Norm((a[1] \div g1) * (b[1] \div g2), (a[2] \div g2) * (b[2] \div g1))

\* a float times a Python int
RScale(a, k) == RMul(a, RInt(k))

\* a numpy float divided by a Python int: x/0 is inf, -inf or nan, not an error
RDivInt(a, k) ==
    IF IsNaN(a) THEN NaN
    ELSE IF ~IsFinite(a) THEN (IF k = 0 THEN a ELSE <<a[1] * Sgn(k), 0>>)
    ELSE IF k = 0 THEN <<Sgn(a[1]), 0>>
    ELSE LET g == GCD(Abs(a[1]), Abs(k))
         IN  Norm(Sgn(k) * (a[1] \div g), a[2] * (Abs(k) \div g))

\* a >= b, a <= b, a > b, a < b on floats: False whenever nan is involved
RSign(a) == Sgn(a[1])

RGe(a, b) == LET d == RSub(a, b) IN
    IF IsNaN(a) \/ IsNaN(b) THEN FALSE ELSE IF IsNaN(d) THEN TRUE ELSE RSign(d) >= 0

RLe(a, b) == RGe(b, a)

RGt(a, b) == LET d == RSub(a, b) IN
    IF IsNaN(a) \/ IsNaN(b) THEN FALSE ELSE IF IsNaN(d) THEN FALSE ELSE RSign(d) > 0

RLt(a, b) == RGt(b, a)

(***************************************************************************)
(* The state: the Simulator's fields, the market data and time index it     *)
(* was built on, and the outcome of the last call made on it.               *)
(***************************************************************************)
VARIABLES
    market_data,        \* token -> the token's frame: one slot per bar
    time_index,         \* Simulator.time_index, minutes since midnight
    slippage,           \* Simulator.slippage
    max_daily_loss,     \* Simulator.max_daily_loss (None or a float)
    cash,               \* Simulator.cash
    order_id_counter,   \* Simulator.order_id_counter
    orders,             \* Simulator.orders
    positions,          \* Simulator.positions, in the dict's insertion order
    trade_log,          \* Simulator.trade_log
    result,             \* what the last call returned or raised
    contract_df,        \* MarketDataLoader.contract_df, the option rows
    strategy_name,      \* run_backtest's strategy_name
    strat,              \* the strategy object's fields
    pc,                 \* where run_backtest is in lines 88-97
    bar,                \* run_backtest's loop variable dt_index
    calls               \* the calls run_backtest has made, in order

\* the variables of the session runner and of the strategy it drives
runvars == <<contract_df, strategy_name, strat, pc, bar, calls>>

vars == <<market_data, time_index, slippage, max_daily_loss, cash,
          order_id_counter, orders, positions, trade_log, result,
          contract_df, strategy_name, strat, pc, bar, calls>>

\* Python's None, where a float is optional
None == <<0, -1>>

\* a slot of a token's frame that holds no row for that minute
NoRow == <<0, -2>>

\* Python's None, where a timestamp is optional
NoTime == -1

StartingCash == 1000000

starting_cash == RInt(StartingCash)

\* the tokens the market data bundle has a frame for
DataTokens == DOMAIN market_data

\* the Simulator's own mutable fields, as one value
Sim == [cash |-> cash, order_id_counter |-> order_id_counter, orders |-> orders,
        positions |-> positions, trade_log |-> trade_log]

(***************************************************************************)
(* Market data API.                                                         *)
(***************************************************************************)
\* df.loc[:ts]: the bars at or before dt_index at which the frame has a row
RowsUpTo(token, dt_index) ==
    {b \in 0..dt_index : market_data[token][b + 1] # NoRow}

SetMax(S) == CHOOSE m \in S : \A x \in S : x <= m

\* get_market_price without the try/except around the empty slice's iloc[-1]
GetMarketPriceNoCatch(token, dt_index) ==
    IF token \notin DataTokens
    THEN [exc |-> "KeyError", value |-> NaN]
    ELSE IF dt_index >= Len(time_index)
    THEN [exc |-> "IndexError", value |-> NaN]
    ELSE LET rows == RowsUpTo(token, dt_index) IN
         IF rows = {}
         THEN [exc |-> "IndexError", value |-> NaN]
         ELSE [exc |-> "none", value |-> market_data[token][SetMax(rows) + 1]]

\* get_market_price: [exc, value]
GetMarketPrice(token, dt_index) ==
    IF token \notin DataTokens
    THEN [exc |-> "KeyError", value |-> NaN]
    ELSE IF dt_index >= Len(time_index)
    THEN [exc |-> "IndexError", value |-> NaN]
    ELSE LET rows == RowsUpTo(token, dt_index) IN
         IF rows = {}
         THEN [exc |-> "none", value |-> NaN]
         ELSE [exc |-> "none", value |-> market_data[token][SetMax(rows) + 1]]

(***************************************************************************)
(* Order API.                                                               *)
(***************************************************************************)
\* str.upper() on the side strings callers pass
Upper(side) ==
    CASE side = "buy" -> "BUY"
      [] side = "sell" -> "SELL"
      [] side = "hold" -> "HOLD"
      [] OTHER -> side

\* the executed price with the slippage added on both sides
FillPriceSlipAdded(price, side, slip_rate) ==
    RAdd(price, RMul(slip_rate, price))

\* lines 102-103: the executed price
FillPrice(price, side, slip_rate) ==
    LET slip == RMul(slip_rate, price)
    IN  IF side = "BUY" THEN RAdd(price, slip) ELSE RSub(price, slip)

\* the cash balance with the cost subtracted whatever the side
CashAfterSubtracts(c, side, cost) == RSub(c, cost)

\* a cash update that books purchases only
CashAfterBuyOnly(c, side, cost) ==
    IF side = "BUY" THEN RSub(c, cost) ELSE c

\* lines 106-109: the cash balance after the fill
CashAfter(c, side, cost) ==
    IF side = "BUY" THEN RSub(c, cost) ELSE RAdd(c, cost)

\* index of the token's Position in the mapping, 0 when it has none
PosIndex(ps, token) ==
    IF \E i \in 1..Len(ps) : ps[i].token = token
    THEN CHOOSE i \in 1..Len(ps) : ps[i].token = token
    ELSE 0

\* self.positions.get(token) is not None
HasPosition(s, token) == PosIndex(s.positions, token) # 0

\* del self.positions[token]
DelPosition(ps, token) ==
    LET keep == {i \in 1..Len(ps) : ps[i].token # token}
        F[i \in 0..Len(ps)] ==
            IF i = 0 THEN <<>>
            ELSE IF i \in keep THEN Append(F[i - 1], ps[i]) ELSE F[i - 1]
    IN  F[Len(ps)]

\* lines 128-135: Position(...) for a token that has none
NewPosition(token, symbol, side, quantity, fill_price, ts) ==
    [token |-> token, symbol |-> symbol,
     side |-> IF side = "BUY" THEN "LONG" ELSE "SHORT",
     quantity |-> quantity, entry_price |-> fill_price, entry_time |-> ts,
     exit_price |-> None, exit_time |-> NoTime, realised_pnl |-> RInt(0)]

\* averaging in with the plain mean of the old entry price and the new fill
AverageInUnweighted(pos, quantity, fill_price) ==
    [pos EXCEPT
        !.entry_price = RDivInt(RAdd(pos.entry_price, fill_price), 2),
        !.quantity = pos.quantity + quantity]

\* averaging in that adds the quantity and keeps the old entry price
AverageInKeepsEntry(pos, quantity, fill_price) ==
    [pos EXCEPT !.quantity = pos.quantity + quantity]

\* lines 141-143 and 158-160: averaging into a position of the same direction
AverageIn(pos, quantity, fill_price) ==
    LET total_qty == pos.quantity + quantity
    IN  [pos EXCEPT
            !.entry_price = RDivInt(RAdd(RScale(pos.entry_price, pos.quantity),
                                         RScale(fill_price, quantity)), total_qty),
            !.quantity = total_qty]

\* lines 148 and 164: the realised PnL of the reduced slice
ReductionPnl(pos, quantity, fill_price) ==
    IF pos.side = "LONG"
    THEN RScale(RSub(fill_price, pos.entry_price), quantity)
    ELSE RScale(RSub(pos.entry_price, fill_price), quantity)

\* a reduction that keeps only the last slice's PnL (= instead of +=)
ReduceLastSliceOnly(pos, quantity, fill_price, ts) ==
    LET q == pos.quantity - quantity
        p == [pos EXCEPT !.quantity = q,
                         !.realised_pnl = ReductionPnl(pos, quantity, fill_price)]
    IN  IF q = 0
        THEN [p EXCEPT !.exit_price = fill_price, !.exit_time = ts]
        ELSE p

\* a reduction that turns the excess into a position of the other side
ReduceFlipping(pos, quantity, fill_price, ts) ==
    LET q == pos.quantity - quantity
        p == [pos EXCEPT !.quantity = IF q < 0 THEN -q ELSE q,
                         !.side = IF q >= 0 THEN @
                                  ELSE IF @ = "LONG" THEN "SHORT" ELSE "LONG",
                         !.realised_pnl = RAdd(pos.realised_pnl,
                                               ReductionPnl(pos, quantity, fill_price))]
    IN  IF q = 0
        THEN [p EXCEPT !.exit_price = fill_price, !.exit_time = ts]
        ELSE p

\* lines 147-152 and 163-168: an order against the position's direction
Reduce(pos, quantity, fill_price, ts) ==
    LET q == pos.quantity - quantity
        p == [pos EXCEPT !.quantity = q,
                         !.realised_pnl = RAdd(pos.realised_pnl,
                                               ReductionPnl(pos, quantity, fill_price))]
    IN  IF q = 0
        THEN [p EXCEPT !.exit_price = fill_price, !.exit_time = ts]
        ELSE p

\* _record_trade: the trade log after a position was finalised
RecordTrade(log, pos) ==
    IF pos.exit_time = NoTime THEN log
    ELSE Append(log, [instrument |-> pos.symbol, side |-> pos.side,
                      entry_time |-> pos.entry_time, exit_time |-> pos.exit_time,
                      entry_price |-> pos.entry_price,
                      exit_price |-> pos.exit_price,
                      quantity |-> pos.quantity, pnl |-> pos.realised_pnl])

\* lines 110-121: the Order record
MakeOrder(id, token, symbol, side, quantity, price, fill_price, ts) ==
    [order_id |-> id, token |-> token, symbol |-> symbol, side |-> side,
     quantity |-> quantity, price |-> price, executed_price |-> fill_price,
     timestamp |-> ts, filled_time |-> ts, status |-> "FILLED",
     order_type |-> "MARKET"]

\* lines 124-170: the mapping and the trade log after the fill
Reconcile(s, token, symbol, side, quantity, fill_price, ts) ==
    LET i == PosIndex(s.positions, token) IN
    IF i = 0
    THEN [s EXCEPT !.positions =
              Append(@, NewPosition(token, symbol, side, quantity, fill_price, ts))]
    ELSE LET pos == s.positions[i]
             same == (pos.side = "LONG" /\ side = "BUY")
                     \/ (pos.side # "LONG" /\ side = "SELL")
         IN  IF same
             THEN [s EXCEPT !.positions[i] = AverageIn(pos, quantity, fill_price)]
             ELSE LET p == Reduce(pos, quantity, fill_price, ts) IN
                  IF p.quantity = 0
                  THEN [s EXCEPT !.trade_log = RecordTrade(@, p),
                                 !.positions = DelPosition(@, token)]
                  ELSE [s EXCEPT !.positions[i] = p]

\* a fill that does not advance order_id_counter
FillOrderSameId(s, token, symbol, side, quantity, price, dt_index) ==
    LET fill_price == FillPrice(price, side, slippage)
        cost == RScale(fill_price, quantity)
        ts == time_index[dt_index + 1]
        order == MakeOrder(s.order_id_counter, token, symbol, side,
                           quantity, price, fill_price, ts)
        s1 == [s EXCEPT !.cash = CashAfter(@, side, cost),
                        !.orders = Append(@, order)]
    IN  [sim |-> Reconcile(s1, token, symbol, side, quantity, fill_price, ts),
         exc |-> "none", order_id |-> order.order_id]

\* lines 102-171: the fill of a validated order at the observed price
FillOrder(s, token, symbol, side, quantity, price, dt_index) ==
    LET fill_price == FillPrice(price, side, slippage)
        cost == RScale(fill_price, quantity)
        ts == time_index[dt_index + 1]
        order == MakeOrder(s.order_id_counter, token, symbol, side,
                           quantity, price, fill_price, ts)
        s1 == [s EXCEPT !.cash = CashAfter(@, side, cost),
                        !.order_id_counter = @ + 1,
                        !.orders = Append(@, order)]
    IN  [sim |-> Reconcile(s1, token, symbol, side, quantity, fill_price, ts),
         exc |-> "none", order_id |-> order.order_id]

\* place_order that takes the order id before it looks up the price
PlaceOrderOnCountsFirst(s, token, symbol, side_in, quantity, dt_index) ==
    LET side == Upper(side_in)
        got == GetMarketPrice(token, dt_index)
        s0 == [s EXCEPT !.order_id_counter = @ + 1]
    IN  IF side \notin {"BUY", "SELL"}
        THEN [sim |-> s, exc |-> "ValueError", order_id |-> 0]
        ELSE IF got.exc # "none"
        THEN [sim |-> s0, exc |-> got.exc, order_id |-> 0]
        ELSE IF IsNaN(got.value)
        THEN [sim |-> s0, exc |-> "ValueError", order_id |-> 0]
        ELSE FillOrder(s, token, symbol, side, quantity, got.value, dt_index)

\* place_order on the engine state s: [sim, exc, order_id]
PlaceOrderOn(s, token, symbol, side_in, quantity, dt_index) ==
    LET side == Upper(side_in)
        got == GetMarketPrice(token, dt_index)
    IN  IF side \notin {"BUY", "SELL"}
        THEN [sim |-> s, exc |-> "ValueError", order_id |-> 0]
        ELSE IF got.exc # "none"
        THEN [sim |-> s, exc |-> got.exc, order_id |-> 0]
        ELSE IF IsNaN(got.value)
        THEN [sim |-> s, exc |-> "ValueError", order_id |-> 0]
        ELSE FillOrder(s, token, symbol, side, quantity, got.value, dt_index)

\* square_off_all on the engine state s: [sim, exc]; an order that raises
\* ends the loop with the earlier closures done
RECURSIVE SquareOffLoop(_, _, _)
SquareOffLoop(s, tokens, dt_index) ==
    IF tokens = <<>> THEN [sim |-> s, exc |-> "none"]
    ELSE LET pos == s.positions[PosIndex(s.positions, Head(tokens))]
             r == PlaceOrderOn(s, pos.token, pos.symbol,
                               IF pos.side = "LONG" THEN "SELL" ELSE "BUY",
                               pos.quantity, dt_index)
         IN  IF r.exc # "none" THEN [sim |-> r.sim, exc |-> r.exc]
             ELSE SquareOffLoop(r.sim, Tail(tokens), dt_index)

SquareOffAllOn(s, dt_index) ==
    SquareOffLoop(s, [i \in 1..Len(s.positions) |-> s.positions[i].token], dt_index)

(***************************************************************************)
(* Engine queries the runner and the strategies make.                       *)
(***************************************************************************)
\* Position.update_pnl: the mark-to-market PnL at current_price
UpdatePnl(pos, current_price) ==
    IF Upper(pos.side) = "LONG"
    THEN RScale(RSub(current_price, pos.entry_price), pos.quantity)
    ELSE RScale(RSub(pos.entry_price, current_price), pos.quantity)

\* update_pnl that keeps the value it computed on the Position
UpdatePnlStores(pos, current_price) ==
    [pos |-> [pos EXCEPT !.realised_pnl =
                 IF Upper(pos.side) = "LONG"
                 THEN RScale(RSub(current_price, pos.entry_price), pos.quantity)
                 ELSE RScale(RSub(pos.entry_price, current_price), pos.quantity)],
     value |-> IF Upper(pos.side) = "LONG"
               THEN RScale(RSub(current_price, pos.entry_price), pos.quantity)
               ELSE RScale(RSub(pos.entry_price, current_price), pos.quantity)]

\* the call pos.update_pnl(current_price): the Position after it, and the
\* value returned; the method assigns nothing
UpdatePnlOn(pos, current_price) ==
    [pos |-> pos, value |-> UpdatePnl(pos, current_price)]

\* lines 209-213, from the i-th position of the mapping on: [sim, exc,
\* value]; a position without a price at the bar adds nothing
RECURSIVE MarkToMarketLoopNoSkip(_, _, _, _)
\* a loop without the isnan test: a missing price enters the sum
MarkToMarketLoopNoSkip(s, i, dt_index, total) ==
    IF i > Len(s.positions) THEN [sim |-> s, exc |-> "none", value |-> total]
    ELSE IF GetMarketPrice(s.positions[i].token, dt_index).exc # "none"
    THEN [sim |-> s, exc |-> GetMarketPrice(s.positions[i].token, dt_index).exc,
          value |-> NaN]
    ELSE MarkToMarketLoopNoSkip(
             s, i + 1, dt_index,
             RAdd(total,
                  UpdatePnl(s.positions[i],
                            GetMarketPrice(s.positions[i].token, dt_index).value)))

RECURSIVE MarkToMarketLoop(_, _, _, _)
MarkToMarketLoop(s, i, dt_index, total) ==
    IF i > Len(s.positions) THEN [sim |-> s, exc |-> "none", value |-> total]
    ELSE IF GetMarketPrice(s.positions[i].token, dt_index).exc # "none"
    THEN [sim |-> s, exc |-> GetMarketPrice(s.positions[i].token, dt_index).exc,
          value |-> NaN]
    ELSE IF IsNaN(GetMarketPrice(s.positions[i].token, dt_index).value)
    THEN MarkToMarketLoop(s, i + 1, dt_index, total)
    ELSE MarkToMarketLoop(
             [s EXCEPT !.positions[i] =
                 UpdatePnlOn(@, GetMarketPrice(@.token, dt_index).value).pos],
             i + 1, dt_index,
             RAdd(total,
                  UpdatePnlOn(s.positions[i],
                              GetMarketPrice(s.positions[i].token, dt_index).value).value))

\* mark_to_market on the engine state s: [sim, exc, value]
MarkToMarketOn(s, dt_index) == MarkToMarketLoop(s, 1, dt_index, RInt(0))

\* a total_equity that leaves the cash balance out
TotalEquityOfPnlOnly(c, m) ==
    [sim |-> m.sim, exc |-> m.exc,
     value |-> IF m.exc # "none" THEN NaN ELSE m.value]

\* line 218, given what mark_to_market returned; self.cash is read first
TotalEquityOf(c, m) ==
    [sim |-> m.sim, exc |-> m.exc,
     value |-> IF m.exc # "none" THEN NaN ELSE RAdd(c, m.value)]

\* total_equity on the engine state s: [sim, exc, value]
TotalEquityOn(s, dt_index) == TotalEquityOf(s.cash, MarkToMarketOn(s, dt_index))

\* a breaker that needs the loss to exceed the threshold
CheckMaxLossOfStrict(e) ==
    [sim |-> e.sim, exc |-> e.exc,
     value |-> IF e.exc # "none" THEN FALSE
               ELSE RGt(RSub(starting_cash, e.value), max_daily_loss)]

\* lines 224-226, given what total_equity returned
CheckMaxLossOf(e) ==
    [sim |-> e.sim, exc |-> e.exc,
     value |-> IF e.exc # "none" THEN FALSE
               ELSE RGe(RSub(starting_cash, e.value), max_daily_loss)]

\* a check_max_loss that takes a missing threshold for a threshold of zero
CheckMaxLossOnNoneIsZero(s, dt_index) ==
    [sim |-> TotalEquityOn(s, dt_index).sim,
     exc |-> TotalEquityOn(s, dt_index).exc,
     value |-> /\ TotalEquityOn(s, dt_index).exc = "none"
               /\ RGe(RSub(starting_cash, TotalEquityOn(s, dt_index).value),
                      IF max_daily_loss = None THEN RInt(0) ELSE max_daily_loss)]

\* check_max_loss on the engine state s: [sim, exc, value]
CheckMaxLossOn(s, dt_index) ==
    IF max_daily_loss = None THEN [sim |-> s, exc |-> "none", value |-> FALSE]
    ELSE CheckMaxLossOf(TotalEquityOn(s, dt_index))

\* the values the three queries return
MarkToMarket(s, dt_index) == MarkToMarketOn(s, dt_index).value

TotalEquity(s, dt_index) == TotalEquityOn(s, dt_index).value

\* check_max_loss: TRUE when the loss threshold is breached
CheckMaxLoss(s, dt_index) == CheckMaxLossOn(s, dt_index).value

(***************************************************************************)
(* The strategy objects.  One record holds the fields of both classes; a    *)
(* strategy reads and writes its own.                                       *)
(***************************************************************************)
\* Python's None, where a token is optional
NoToken == 0

\* MeanReversionStrategy.__init__ and StraddleSellerStrategy.__init__
NewStrategy ==
    [in_position |-> "None", entry_index |-> None, entry_price |-> None,
     call_token |-> NoToken, put_token |-> NoToken,
     premium_collected |-> RInt(0), open_trades |-> FALSE,
     stop_loss |-> None, target |-> None]

(***************************************************************************)
(* The engine driven directly: any caller, any sequence of calls.           *)
(***************************************************************************)
\* tokens callers name: 1 and 2 have market data, 9 has none
Tokens == {1, 2, 9}

SymbolOf(token) == token

\* side strings callers pass: the two the strategies use, and others
ValidSides == {"BUY", "SELL"}

Sides == ValidSides \cup {"sell", "HOLD"}

\* order quantities callers pass
Quantities == {1, 2, 10}

\* bar indices callers pass; NumBars is past the end of the time index
BarArgs == 0..NumBars

\* Token 1 closes at 100 at bar 0 and at 110 at bar 1; token 2 has its first
\* row at bar 1 (close 50).  At bar 2 both frames hold a row without a close
\* (the Open/High/Low lists of the bundle have the minute, the Close list
\* does not), and neither has a later row.
EngineData ==
    LET row1(b) == IF b = 0 THEN RInt(100) ELSE IF b = 1 THEN RInt(110)
                   ELSE IF b = 2 THEN NaN ELSE NoRow
        row2(b) == IF b = 1 THEN RInt(50) ELSE IF b = 2 THEN NaN ELSE NoRow
    IN  (1 :> [i \in 1..NumBars |-> row1(i - 1)])
        @@ (2 :> [i \in 1..NumBars |-> row2(i - 1)])

\* consecutive minutes from 09:19
EngineTimeIndex == [i \in 1..NumBars |-> 9 * 60 + 19 + (i - 1)]

SlippageRates == {RInt(0), <<1, 100>>}

Init ==
    /\ market_data = EngineData
    /\ time_index = EngineTimeIndex
    /\ slippage \in SlippageRates
    /\ max_daily_loss = None
    /\ cash = starting_cash
    /\ order_id_counter = 1
    /\ orders = <<>>
    /\ positions = <<>>
    /\ trade_log = <<>>
    /\ result = [op |-> "init", exc |-> "none", value |-> NaN, flag |-> FALSE]
    /\ contract_df = <<>>
    /\ strategy_name = "none"
    /\ strat = NewStrategy
    /\ pc = "idle"
    /\ bar = 0
    /\ calls = <<>>

SetSim(s) ==
    /\ cash' = s.cash
    /\ order_id_counter' = s.order_id_counter
    /\ orders' = s.orders
    /\ positions' = s.positions
    /\ trade_log' = s.trade_log

\* the bar indices of the session
Bars == 0..(NumBars - 1)

PlaceOrderCall(token, side, quantity, dt_index) ==
    /\ LET r == PlaceOrderOn(Sim, token, SymbolOf(token), side, quantity, dt_index)
       IN  /\ SetSim(r.sim)
           /\ result' = [op |-> "place_order", exc |-> r.exc,
                         value |-> RInt(r.order_id), flag |-> FALSE]
    /\ UNCHANGED <<market_data, time_index, slippage, max_daily_loss>>
    /\ UNCHANGED runvars

SquareOffAllCall(dt_index) ==
    /\ LET r == SquareOffAllOn(Sim, dt_index)
       IN  /\ SetSim(r.sim)
           /\ result' = [op |-> "square_off_all", exc |-> r.exc, value |-> NaN, flag |-> FALSE]
    /\ UNCHANGED <<market_data, time_index, slippage, max_daily_loss>>
    /\ UNCHANGED runvars

GetMarketPriceCall(token, dt_index) ==
    /\ LET r == GetMarketPrice(token, dt_index)
       IN  result' = [op |-> "get_market_price", exc |-> r.exc, value |-> r.value, flag |-> FALSE]
    /\ UNCHANGED <<market_data, time_index, slippage, max_daily_loss, cash,
                   order_id_counter, orders, positions, trade_log>>
    /\ UNCHANGED runvars

\* The engine driven by callers that name a token of the bundle, a bar of
\* the session and a side in upper case, as the strategies do.
PlaceOrder ==
    /\ Len(orders) < MaxOrders
    /\ \E token \in DataTokens, side \in ValidSides, quantity \in Quantities,
          dt_index \in Bars :
           PlaceOrderCall(token, side, quantity, dt_index)

SquareOffAll ==
    /\ Len(orders) + Len(positions) <= MaxOrders + 1
    /\ \E dt_index \in Bars : SquareOffAllCall(dt_index)

Next == PlaceOrder \/ SquareOffAll

Spec == Init /\ [][Next]_vars

\* The engine driven by any caller: any token, any side string, any bar
\* index, and the market data query called between the orders.
PlaceOrderAny ==
    /\ Len(orders) < MaxQueryOrders
    /\ \E token \in Tokens, side \in Sides, quantity \in Quantities,
          dt_index \in BarArgs :
           PlaceOrderCall(token, side, quantity, dt_index)

SquareOffAllAny ==
    /\ Len(orders) < MaxQueryOrders
    /\ \E dt_index \in BarArgs : SquareOffAllCall(dt_index)

GetMarketPriceQuery ==
    \E token \in Tokens, dt_index \in BarArgs : GetMarketPriceCall(token, dt_index)

NextQ == PlaceOrderAny \/ SquareOffAllAny \/ GetMarketPriceQuery

SpecQ == Init /\ [][NextQ]_vars

(***************************************************************************)
(* The instrument directory and the strike helper.                          *)
(***************************************************************************)
\* the smallest power of ten above n: 10^(number of decimal digits of n)
RECURSIVE PowerOfTenAbove(_, _)
PowerOfTenAbove(n, p) == IF n < p THEN p ELSE PowerOfTenAbove(n, p * 10)

\* Description.endswith(f"{strike}{option_type}") on a row whose description
\* ends with the row's own strike and option type
DescriptionEndsWith(row, strike, option_type) ==
    /\ row.option_type = option_type
    /\ strike >= 0
    /\ row.strike % PowerOfTenAbove(strike, 10) = strike

SetMin(S) == CHOOSE m \in S : \A x \in S : m <= x

\* find_option_token: [found, token]; expiries are days from the trade
\* date, and row.iloc[0] is the first matching row in the table's order
FindOptionToken(strike, option_type) ==
    LET candidates == {i \in DOMAIN contract_df : contract_df[i].expiry >= 0}
    IN  IF candidates = {} THEN [found |-> FALSE, token |-> NoToken]
        ELSE LET nearest == SetMin({contract_df[i].expiry : i \in candidates})
                 row == {i \in candidates :
                            /\ contract_df[i].expiry = nearest
                            /\ DescriptionEndsWith(contract_df[i], strike, option_type)}
             IN  IF row = {} THEN [found |-> FALSE, token |-> NoToken]
                 ELSE [found |-> TRUE, token |-> contract_df[SetMin(row)].token]

\* Python's round() on a finite float: to the nearest integer, ties to even
RoundHalfEven(a) ==
    LET q == a[1] \div a[2]
        r == a[1] - q * a[2]
    IN  IF 2 * r < a[2] THEN q
        ELSE IF 2 * r > a[2] THEN q + 1
        ELSE IF q % 2 = 0 THEN q ELSE q + 1

\* nearest_strike(price, step)
NearestStrike(price, step) == RoundHalfEven(RDivInt(price, step)) * step

(***************************************************************************)
(* MeanReversionStrategy.  The EMA, band and RSI series on_start computes   *)
(* are series of the close prices; on_bar reads their values at its own bar *)
(* only, and takes them here as the argument ind.                           *)
(***************************************************************************)
\* the underlying's token, which both strategies are constructed with
IndexToken == 1

\* 15:15, in minutes since midnight
MeanReversionSquareOff == 15 * 60 + 15

\* an entry that places the order and forgets to record the state
MREnteredKeepsFlat(st, side, dt_index, price, r) ==
    [sim |-> r.sim, strat |-> st, exc |-> r.exc, returned |-> r.exc # "none"]

\* lines 78-81 and 88-91: after the entry order, the strategy is in a
\* position; an order that raised leaves on_bar
MREntered(st, side, dt_index, price, r) ==
    IF r.exc # "none"
    THEN [sim |-> r.sim, strat |-> st, exc |-> r.exc, returned |-> TRUE]
    ELSE [sim |-> r.sim,
          strat |-> [st EXCEPT !.in_position = side,
                               !.entry_index = RInt(dt_index),
                               !.entry_price = price],
          exc |-> "none", returned |-> FALSE]

\* an exit whose order is placed but whose state is not reset
MRExitedKeepsState(st, r) ==
    [sim |-> r.sim, strat |-> st, exc |-> r.exc, returned |-> r.exc # "none"]

\* lines 104-110 and 113-119: after the exit order, the strategy is flat
MRExited(st, r) ==
    IF r.exc # "none"
    THEN [sim |-> r.sim, strat |-> st, exc |-> r.exc, returned |-> TRUE]
    ELSE [sim |-> r.sim,
          strat |-> [st EXCEPT !.in_position = "None", !.entry_index = None,
                               !.entry_price = None],
          exc |-> "none", returned |-> FALSE]

\* trade rules whose long entry does not look at in_position
MROnBarTradeReenters(s, st, dt_index, price, ind) ==
    IF RLe(price, ind.lower) /\ RLt(ind.rsi, RInt(30)) /\ RGt(price, ind.ema)
    THEN MREntered(st, "LONG", dt_index, price,
                   PlaceOrderOn(s, IndexToken, SymbolOf(IndexToken),
                                "BUY", 1, dt_index))
    ELSE [sim |-> s, strat |-> st, exc |-> "none", returned |-> FALSE]

\* lines 73-119: [sim, strat, exc, returned]
MROnBarTrade(s, st, dt_index, price, ind) ==
    IF st.in_position = "None"
    THEN IF RLe(price, ind.lower) /\ RLt(ind.rsi, RInt(30)) /\ RGt(price, ind.ema)
         THEN MREntered(st, "LONG", dt_index, price,
                        PlaceOrderOn(s, IndexToken, SymbolOf(IndexToken),
                                     "BUY", 1, dt_index))
         ELSE IF RGe(price, ind.upper) /\ RGt(ind.rsi, RInt(70)) /\ RLt(price, ind.ema)
         THEN MREntered(st, "SHORT", dt_index, price,
                        PlaceOrderOn(s, IndexToken, SymbolOf(IndexToken),
                                     "SELL", 1, dt_index))
         ELSE [sim |-> s, strat |-> st, exc |-> "none", returned |-> FALSE]
    ELSE IF ~HasPosition(s, IndexToken)
    THEN [sim |-> s, strat |-> [st EXCEPT !.in_position = "None"],
          exc |-> "none", returned |-> TRUE]
    ELSE IF st.in_position = "LONG"
            /\ (RLt(price, ind.ema) \/ RGe(ind.rsi, RInt(50)))
    THEN MRExited(st, PlaceOrderOn(s, IndexToken, SymbolOf(IndexToken), "SELL",
                                   s.positions[PosIndex(s.positions, IndexToken)].quantity,
                                   dt_index))
    ELSE IF st.in_position = "SHORT"
            /\ (RGt(price, ind.ema) \/ RLe(ind.rsi, RInt(50)))
    THEN MRExited(st, PlaceOrderOn(s, IndexToken, SymbolOf(IndexToken), "BUY",
                                   s.positions[PosIndex(s.positions, IndexToken)].quantity,
                                   dt_index))
    ELSE [sim |-> s, strat |-> st, exc |-> "none", returned |-> FALSE]

\* lines 126-130: after the square-off order
MRSquaredOff(st, r) ==
    IF r.exc # "none" THEN [sim |-> r.sim, strat |-> st, exc |-> r.exc]
    ELSE [sim |-> r.sim, strat |-> [st EXCEPT !.in_position = "None"],
          exc |-> "none"]

\* the order that closes the position pos
ClosingSide(pos) == IF pos.side = "LONG" THEN "SELL" ELSE "BUY"

\* lines 120-130: the square-off at 15:15
MROnBarSquareOff(s, st, dt_index) ==
    IF time_index[dt_index + 1] = MeanReversionSquareOff /\ st.in_position # "None"
    THEN IF HasPosition(s, IndexToken)
         THEN MRSquaredOff(st,
                  PlaceOrderOn(s, IndexToken, SymbolOf(IndexToken),
                               ClosingSide(s.positions[PosIndex(s.positions, IndexToken)]),
                               s.positions[PosIndex(s.positions, IndexToken)].quantity,
                               dt_index))
         ELSE [sim |-> s, strat |-> [st EXCEPT !.in_position = "None"], exc |-> "none"]
    ELSE [sim |-> s, strat |-> st, exc |-> "none"]

\* lines 100 and 120: a return inside the trade rules ends on_bar, otherwise
\* the square-off rule follows
MRAfterTrade(r, dt_index) ==
    IF r.returned THEN [sim |-> r.sim, strat |-> r.strat, exc |-> r.exc]
    ELSE MROnBarSquareOff(r.sim, r.strat, dt_index)

\* MeanReversionStrategy.on_bar: [sim, strat, exc]
MROnBar(s, st, dt_index, ind) ==
    IF IsNaN(GetMarketPrice(IndexToken, dt_index).value)
    THEN [sim |-> s, strat |-> st, exc |-> "none"]
    ELSE IF IsNaN(ind.ema) \/ IsNaN(ind.upper) \/ IsNaN(ind.lower) \/ IsNaN(ind.rsi)
    THEN [sim |-> s, strat |-> st, exc |-> "none"]
    ELSE MRAfterTrade(MROnBarTrade(s, st, dt_index,
                                   GetMarketPrice(IndexToken, dt_index).value, ind),
                      dt_index)

\* lines 135-137: after on_finish's square_off_all
MRFinished(st, r) ==
    IF r.exc # "none" THEN [sim |-> r.sim, strat |-> st, exc |-> r.exc]
    ELSE [sim |-> r.sim,
          strat |-> [st EXCEPT !.in_position = "None", !.entry_index = None,
                               !.entry_price = None],
          exc |-> "none"]

\* MeanReversionStrategy.on_finish: [sim, strat, exc]
MROnFinish(s, st, dt_index) == MRFinished(st, SquareOffAllOn(s, dt_index))

(***************************************************************************)
(* StraddleSellerStrategy.                                                  *)
(***************************************************************************)
\* 09:20 and 15:10, in minutes since midnight
StraddleEntry == 9 * 60 + 20

StraddleSquareOff == 15 * 60 + 10

\* the strike step on_bar passes to nearest_strike
StrikeStep == 50

\* lines 74-84: both legs are sold
SSEntered(st, s, premium) ==
    [sim |-> s,
     strat |-> [st EXCEPT !.premium_collected = premium,
                          !.stop_loss = RMul(<<-1, 4>>, premium),
                          !.target = RMul(<<1, 2>>, premium),
                          !.open_trades = TRUE],
     exc |-> "none"]

\* lines 71-76: after the put order q; call_id is the call order's id
SSAfterPut(st, call_id, q) ==
    IF q.exc # "none" THEN [sim |-> q.sim, strat |-> st, exc |-> q.exc]
    ELSE SSEntered(st, q.sim, RAdd(q.sim.orders[call_id].executed_price,
                                   q.sim.orders[q.order_id].executed_price))

\* lines 68-73: after the call order c, the put order
SSAfterCall(st, dt_index, c) ==
    IF c.exc # "none" THEN [sim |-> c.sim, strat |-> st, exc |-> c.exc]
    ELSE SSAfterPut(st, c.order_id,
                    PlaceOrderOn(c.sim, st.put_token, SymbolOf(st.put_token),
                                 "SELL", 1, dt_index))

\* lines 65-73: the tokens are remembered, then the call is sold
SSSellLegs(s, st, dt_index) ==
    SSAfterCall(st, dt_index,
                PlaceOrderOn(s, st.call_token, SymbolOf(st.call_token),
                             "SELL", 1, dt_index))

\* an entry that goes on when only the call was found
SSResolveCallOnly(s, st, dt_index, call_res, put_res) ==
    IF ~call_res.found
    THEN [sim |-> s, strat |-> st, exc |-> "none"]
    ELSE SSSellLegs(s, [st EXCEPT !.call_token = call_res.token,
                                  !.put_token = put_res.token], dt_index)

\* lines 54-66: the ATM strike's option tokens are looked up
SSResolve(s, st, dt_index, call_res, put_res) ==
    IF ~call_res.found \/ ~put_res.found
    THEN [sim |-> s, strat |-> st, exc |-> "none"]
    ELSE SSSellLegs(s, [st EXCEPT !.call_token = call_res.token,
                                  !.put_token = put_res.token], dt_index)

\* lines 50-84, the entry at 09:20: [sim, strat, exc]
SSEnter(s, st, dt_index) ==
    IF IsNaN(GetMarketPrice(IndexToken, dt_index).value)
    THEN [sim |-> s, strat |-> st, exc |-> "none"]
    ELSE SSResolve(s, st, dt_index,
             FindOptionToken(NearestStrike(GetMarketPrice(IndexToken, dt_index).value,
                                           StrikeStep), "CE"),
             FindOptionToken(NearestStrike(GetMarketPrice(IndexToken, dt_index).value,
                                           StrikeStep), "PE"))

\* lines 102-103, 109-110 and 115-116: after square_off_all
SSClosed(st, r) ==
    IF r.exc # "none" THEN [sim |-> r.sim, strat |-> st, exc |-> r.exc]
    ELSE [sim |-> r.sim, strat |-> [st EXCEPT !.open_trades = FALSE],
          exc |-> "none"]

\* lines 92-97: the combined PnL of the two legs at the bar
SSTotalPnl(call_pos, put_pos, dt_index) ==
    RAdd(RAdd(RAdd(UpdatePnl(call_pos, GetMarketPrice(call_pos.token, dt_index).value),
                   UpdatePnl(put_pos, GetMarketPrice(put_pos.token, dt_index).value)),
              call_pos.realised_pnl),
         put_pos.realised_pnl)

\* an exit rule that needs the level to be passed, not only reached
SSExitRuleStrict(st, total_pnl) ==
    RLt(total_pnl, st.stop_loss) \/ RGt(total_pnl, st.target)

\* line 98: the stop or the target is hit
SSExitRule(st, total_pnl) ==
    RLe(total_pnl, st.stop_loss) \/ RGe(total_pnl, st.target)

\* lines 104-110, the square-off at 15:10: [sim, strat, exc]
SSSquareOff(s, st, dt_index) ==
    IF time_index[dt_index + 1] = StraddleSquareOff /\ st.open_trades
    THEN SSClosed(st, SquareOffAllOn(s, dt_index))
    ELSE [sim |-> s, strat |-> st, exc |-> "none"]

\* lines 102-105: after the exit rule's square_off_all, the 15:10 rule
SSAfterExit(r, dt_index) ==
    IF r.exc # "none" THEN r ELSE SSSquareOff(r.sim, r.strat, dt_index)

\* lines 86-110: the exit rules, then the square-off at 15:10
SSManage(s, st, dt_index) ==
    IF ~st.open_trades THEN SSSquareOff(s, st, dt_index)
    ELSE IF ~HasPosition(s, st.call_token) \/ ~HasPosition(s, st.put_token)
    THEN [sim |-> s, strat |-> st, exc |-> "none"]
    ELSE IF SSExitRule(st, SSTotalPnl(s.positions[PosIndex(s.positions, st.call_token)],
                                      s.positions[PosIndex(s.positions, st.put_token)],
                                      dt_index))
    THEN SSAfterExit(SSClosed(st, SquareOffAllOn(s, dt_index)), dt_index)
    ELSE SSSquareOff(s, st, dt_index)

\* StraddleSellerStrategy.on_bar: [sim, strat, exc]
SSOnBar(s, st, dt_index) ==
    IF time_index[dt_index + 1] = StraddleEntry /\ ~st.open_trades
    THEN SSEnter(s, st, dt_index)
    ELSE SSManage(s, st, dt_index)

\* an on_finish that clears the flag without squaring off
SSOnFinishFlagOnly(s, st, dt_index) ==
    [sim |-> s, strat |-> [st EXCEPT !.open_trades = FALSE], exc |-> "none"]

\* StraddleSellerStrategy.on_finish: [sim, strat, exc]
SSOnFinish(s, st, dt_index) ==
    IF st.open_trades THEN SSClosed(st, SquareOffAllOn(s, dt_index))
    ELSE [sim |-> s, strat |-> st, exc |-> "none"]

(***************************************************************************)
(* run_backtest, lines 77-97: the session runner.  The sessions run here    *)
(* differ in the strategy, the bundle's closes, the option rows of the      *)
(* directory and the minutes of the time index.  run_backtest builds the    *)
(* Simulator without a loss threshold (line 77); the runner is also run     *)
(* here on a Simulator constructed with one.                                *)
(***************************************************************************)
\* the option tokens of the directory
CallToken == 2

PutToken == 3

FarCallToken == 4

\* the ATM strike of the sessions
AtmStrike == 100

\* contract_df: NIFTY-OPTIDX rows, expiry in days from the trade date
ContractRow(token, strike, option_type, expiry) ==
    [token |-> token, strike |-> strike, option_type |-> option_type,
     expiry |-> expiry]

Directories ==
    {<<ContractRow(FarCallToken, AtmStrike, "CE", -1),
       ContractRow(CallToken, AtmStrike, "CE", 0),
       ContractRow(PutToken, AtmStrike, "PE", 0),
       ContractRow(FarCallToken, AtmStrike, "CE", 7)>>,
     <<ContractRow(CallToken, AtmStrike, "CE", 0)>>}

\* the time index of the underlying's frame: 09:20, 15:10, 15:15 and the
\* minutes after it; or consecutive minutes from 09:19
GappedTimeIndex ==
    [i \in 1..NumBars |-> IF i = 1 THEN StraddleEntry
                          ELSE IF i = 2 THEN StraddleSquareOff
                          ELSE MeanReversionSquareOff + (i - 3)]

MorningTimeIndex == [i \in 1..NumBars |-> StraddleEntry - 1 + (i - 1)]

\* consecutive minutes from 15:14: the minute before the mean-reversion
\* square-off, the square-off minute, and the minutes after it
ClosingTimeIndex == [i \in 1..NumBars |-> MeanReversionSquareOff - 1 + (i - 1)]

TimeIndexes == {GappedTimeIndex, MorningTimeIndex, ClosingTimeIndex}

\* closes of the underlying in a mean-reversion session
UnderlyingCloses == {RInt(90), RInt(100), NaN}

MeanReversionData ==
    {(IndexToken :> closes) : closes \in [1..NumBars -> UnderlyingCloses]}

\* what on_bar finds in the indicator series at its bar: the long setup,
\* the short setup, a neutral bar, and a bar of the warm-up
IndicatorRow(ema_val, upper, lower, rsi_val) ==
    [ema |-> ema_val, upper |-> upper, lower |-> lower, rsi |-> rsi_val]

IndicatorRows ==
    {IndicatorRow(RInt(80), RInt(120), RInt(100), RInt(25)),
     IndicatorRow(RInt(120), RInt(90), RInt(60), RInt(75)),
     IndicatorRow(RInt(95), RInt(120), RInt(80), RInt(50)),
     IndicatorRow(NaN, NaN, NaN, NaN)}

\* the underlying's close in a straddle session, the same at every bar
StraddleUnderlying == {RInt(100), RInt(125), NaN}

\* <<call close, put close>> of a bar in a straddle session
OptionQuotes ==
    {<<RInt(10), RInt(10)>>, <<RInt(16), RInt(10)>>, <<RInt(14), RInt(10)>>,
     <<RInt(5), RInt(5)>>,
     <<NaN, RInt(10)>>, <<RInt(10), NaN>>, <<NoRow, NoRow>>}

\* the bundle of a straddle session: with frames for the two options, or
\* with the underlying's frame only
StraddleData ==
    {(IndexToken :> [i \in 1..NumBars |-> u])
        @@ (CallToken :> [i \in 1..NumBars |-> q[i][1]])
        @@ (PutToken :> [i \in 1..NumBars |-> q[i][2]]) :
            u \in StraddleUnderlying, q \in [1..NumBars -> OptionQuotes]}
    \cup {(IndexToken :> [i \in 1..NumBars |-> u]) : u \in StraddleUnderlying}

\* Simulator(max_daily_loss=...)
MaxDailyLosses == {None, RInt(100)}

StrategyNames == {"straddle", "mean_reversion"}

InitRun ==
    /\ strategy_name \in StrategyNames
    /\ market_data \in (IF strategy_name = "straddle" THEN StraddleData
                        ELSE MeanReversionData)
    /\ contract_df \in Directories
    /\ time_index \in TimeIndexes
    /\ slippage = RInt(0)
    /\ max_daily_loss \in MaxDailyLosses
    /\ cash = starting_cash
    /\ order_id_counter = 1
    /\ orders = <<>>
    /\ positions = <<>>
    /\ trade_log = <<>>
    /\ result = [op |-> "init", exc |-> "none", value |-> NaN, flag |-> FALSE]
    /\ strat = NewStrategy
    /\ pc = "start"
    /\ bar = 0
    /\ calls = <<>>

\* a call made by run_backtest
Call(callback, dt_index) == [callback |-> callback, dt_index |-> dt_index]

RunFixed == UNCHANGED <<market_data, time_index, slippage, max_daily_loss,
                        contract_df, strategy_name>>

\* line 88: strategy.on_start(0)
RunOnStart ==
    /\ pc = "start"
    /\ calls' = Append(calls, Call("on_start", 0))
    /\ pc' = "loop"
    /\ bar' = 0
    /\ result' = [op |-> "on_start", exc |-> "none", value |-> NaN, flag |-> FALSE]
    /\ UNCHANGED <<cash, order_id_counter, orders, positions, trade_log, strat>>
    /\ RunFixed

\* line 95: on_bar returned or raised r
Dispatched(r) ==
    /\ SetSim(r.sim)
    /\ strat' = r.strat
    /\ pc' = IF r.exc = "none" THEN "loop" ELSE "aborted"
    /\ bar' = IF r.exc = "none" THEN bar + 1 ELSE bar
    /\ result' = [op |-> "on_bar", exc |-> r.exc, value |-> NaN, flag |-> FALSE]

\* line 97: on_finish returned or raised r
Finished(r) ==
    /\ SetSim(r.sim)
    /\ strat' = r.strat
    /\ pc' = IF r.exc = "none" THEN "finished" ELSE "aborted"
    /\ result' = [op |-> "on_finish", exc |-> r.exc, value |-> NaN, flag |-> FALSE]

\* an iteration that dispatches the bar without asking check_max_loss
RunBarUnchecked ==
    /\ pc = "loop"
    /\ bar < Len(time_index)
    /\ \E ind \in IndicatorRows :
        Dispatched(IF strategy_name = "straddle" THEN SSOnBar(Sim, strat, bar)
                   ELSE MROnBar(Sim, strat, bar, ind))
    /\ calls' = calls \o <<Call("check_max_loss", bar), Call("on_bar", bar)>>
    /\ RunFixed

\* lines 89-95, an iteration that dispatches: check_max_loss is false and
\* on_bar runs; an exception on_bar raises leaves run_backtest
RunBar ==
    /\ pc = "loop"
    /\ bar < Len(time_index)
    /\ ~CheckMaxLoss(Sim, bar)
    /\ \E ind \in IndicatorRows :
        Dispatched(IF strategy_name = "straddle"
                   THEN SSOnBar(CheckMaxLossOn(Sim, bar).sim, strat, bar)
                   ELSE MROnBar(CheckMaxLossOn(Sim, bar).sim, strat, bar, ind))
    /\ calls' = calls \o <<Call("check_max_loss", bar), Call("on_bar", bar)>>
    /\ RunFixed

\* lines 91-93: check_max_loss is true and the loop breaks
RunBreak ==
    /\ pc = "loop"
    /\ bar < Len(time_index)
    /\ CheckMaxLoss(Sim, bar)
    /\ calls' = Append(calls, Call("check_max_loss", bar))
    /\ pc' = "finish"
    /\ result' = [op |-> "check_max_loss", exc |-> "none", value |-> NaN,
                  flag |-> TRUE]
    /\ SetSim(CheckMaxLossOn(Sim, bar).sim)
    /\ UNCHANGED <<strat, bar>>
    /\ RunFixed

\* line 89: the range is exhausted
RunLoopEnd ==
    /\ pc = "loop"
    /\ bar = Len(time_index)
    /\ pc' = "finish"
    /\ UNCHANGED <<cash, order_id_counter, orders, positions, trade_log, strat,
                   bar, calls, result>>
    /\ RunFixed

\* line 97: strategy.on_finish(len(time_index) - 1)
RunOnFinish ==
    /\ pc = "finish"
    /\ Finished(IF strategy_name = "straddle"
                THEN SSOnFinish(Sim, strat, Len(time_index) - 1)
                ELSE MROnFinish(Sim, strat, Len(time_index) - 1))
    /\ calls' = Append(calls, Call("on_finish", Len(time_index) - 1))
    /\ UNCHANGED bar
    /\ RunFixed

NextRun == RunOnStart \/ RunBar \/ RunBreak \/ RunLoopEnd \/ RunOnFinish

SpecRun == InitRun /\ [][NextRun]_vars

(***************************************************************************)
(* The account queries, called between orders on a Simulator constructed    *)
(* with or without a loss threshold.                                        *)
(***************************************************************************)
InitA ==
    /\ market_data = EngineData
    /\ time_index = EngineTimeIndex
    /\ slippage = RInt(0)
    /\ max_daily_loss \in MaxDailyLosses
    /\ cash = starting_cash
    /\ order_id_counter = 1
    /\ orders = <<>>
    /\ positions = <<>>
    /\ trade_log = <<>>
    /\ result = [op |-> "init", exc |-> "none", value |-> NaN, flag |-> FALSE]
    /\ contract_df = <<>>
    /\ strategy_name = "none"
    /\ strat = NewStrategy
    /\ pc = "idle"
    /\ bar = 0
    /\ calls = <<>>

\* a query for a float returned or raised r
Queried(op, r) ==
    /\ SetSim(r.sim)
    /\ result' = [op |-> op, exc |-> r.exc, value |-> r.value, flag |-> FALSE]
    /\ UNCHANGED <<market_data, time_index, slippage, max_daily_loss>>
    /\ UNCHANGED runvars

\* check_max_loss returned or raised r
QueriedFlag(r) ==
    /\ SetSim(r.sim)
    /\ result' = [op |-> "check_max_loss", exc |-> r.exc, value |-> NaN,
                  flag |-> r.value]
    /\ UNCHANGED <<market_data, time_index, slippage, max_daily_loss>>
    /\ UNCHANGED runvars

MarkToMarketCall(dt_index) == Queried("mark_to_market", MarkToMarketOn(Sim, dt_index))

TotalEquityCall(dt_index) == Queried("total_equity", TotalEquityOn(Sim, dt_index))

CheckMaxLossCall(dt_index) == QueriedFlag(CheckMaxLossOn(Sim, dt_index))

PlaceOrderA ==
    /\ Len(orders) < MaxQueryOrders
    /\ \E token \in DataTokens, side \in ValidSides, quantity \in Quantities,
          dt_index \in Bars :
           PlaceOrderCall(token, side, quantity, dt_index)

MarkToMarketQuery == \E dt_index \in BarArgs : MarkToMarketCall(dt_index)

TotalEquityQuery == \E dt_index \in BarArgs : TotalEquityCall(dt_index)

CheckMaxLossQuery == \E dt_index \in BarArgs : CheckMaxLossCall(dt_index)

PriceQueryA == \E token \in DataTokens, dt_index \in Bars :
                   GetMarketPriceCall(token, dt_index)

NextA == PlaceOrderA \/ MarkToMarketQuery \/ TotalEquityQuery
             \/ CheckMaxLossQuery \/ PriceQueryA

SpecA == InitA /\ [][NextA]_vars

(***************************************************************************)
(* Vocabulary of the properties.                                            *)
(***************************************************************************)
HasPos(ps, token) == PosIndex(ps, token) # 0

PosOf(ps, token) == ps[PosIndex(ps, token)]

\* the orders and the trade records a step appends
FreshOrders == SubSeq(orders', Len(orders) + 1, Len(orders'))

FreshTrades == SubSeq(trade_log', Len(trade_log) + 1, Len(trade_log'))

OrdersOf(seq, token) == {i \in DOMAIN seq : seq[i].token = token}

TradesOf(seq, token) == {i \in DOMAIN seq : seq[i].instrument = SymbolOf(token)}

\* the order acts against the position's direction
Opposes(pos, o) ==
    \/ pos.side = "LONG" /\ o.side = "SELL"
    \/ pos.side = "SHORT" /\ o.side = "BUY"

\* (x - e) * q for a LONG, (e - x) * q for a SHORT
SlicePnl(side, e, x, q) ==
    IF side = "LONG" THEN RScale(RSub(x, e), q) ELSE RScale(RSub(e, x), q)

\* the bar whose timestamp is ts
BarOf(ts) == CHOOSE d \in 0..(Len(time_index) - 1) : time_index[d + 1] = ts

RECURSIVE SumOver(_, _, _)
\* the sum of f[i] over the index set S, from the float z
SumOver(f, S, z) ==
    IF S = {} THEN z
    ELSE LET i == CHOOSE x \in S : TRUE IN SumOver(f, S \ {i}, RAdd(z, f[i]))

(***************************************************************************)
(* C1.  Every Position present in the open-position mapping has            *)
(* quantity > 0, in every state reached by place_order calls with          *)
(* quantity > 0.                                                            *)
(***************************************************************************)
C1_OpenQuantityPositive ==
    \A i \in 1..Len(positions) : positions[i].quantity > 0

(***************************************************************************)
(* C2.  An order against a position's direction that leaves its quantity   *)
(* non-zero appends no TradeRecord, keeps the Position and adds the slice's *)
(* PnL to its realised PnL; the one that brings the quantity to exactly    *)
(* zero appends exactly one TradeRecord, whose pnl is the realised PnL of  *)
(* the earlier reductions plus this slice's, and removes the token from    *)
(* the mapping.  A new Position starts with realised PnL 0 and averaging   *)
(* in leaves it alone, so the record's pnl is the sum over the reductions. *)
(***************************************************************************)
C2_Step ==
    \A t \in DataTokens :
        LET fresh == OrdersOf(FreshOrders, t)
            recs == TradesOf(FreshTrades, t)
        IN  /\ Cardinality(fresh) <= 1
            /\ fresh = {} => recs = {}
            /\ \A k \in fresh :
                 LET o == FreshOrders[k] IN
                 IF ~HasPos(positions, t)
                 THEN /\ recs = {}
                      /\ HasPos(positions', t)
                      /\ PosOf(positions', t).realised_pnl = RInt(0)
                 ELSE LET pos == PosOf(positions, t)
                          pnl == SlicePnl(pos.side, pos.entry_price,
                                          o.executed_price, o.quantity)
                      IN  IF ~Opposes(pos, o)
                          THEN /\ recs = {}
                               /\ HasPos(positions', t)
                               /\ PosOf(positions', t).realised_pnl = pos.realised_pnl
                          ELSE IF pos.quantity - o.quantity # 0
                          THEN /\ recs = {}
                               /\ HasPos(positions', t)
                               /\ PosOf(positions', t).realised_pnl
                                      = RAdd(pos.realised_pnl, pnl)
                          ELSE /\ Cardinality(recs) = 1
                               /\ \A r \in recs :
                                      FreshTrades[r].pnl = RAdd(pos.realised_pnl, pnl)
                               /\ ~HasPos(positions', t)

C2_CloseEmitsOneRecord == [][C2_Step]_vars

\* BUY 2, then SELL 1 twice at another price: one record, both slices in it
C2_Witness ==
    /\ Len(orders) = 3
    /\ \A i \in 1..3 : orders[i].token = 1
    /\ orders[1].side = "BUY" /\ orders[1].quantity = 2
    /\ orders[2].side = "SELL" /\ orders[2].quantity = 1
    /\ orders[3].side = "SELL" /\ orders[3].quantity = 1
    /\ orders[2].executed_price # orders[1].executed_price
    /\ orders[3].executed_price # orders[1].executed_price
    /\ Len(trade_log) = 1
    /\ trade_log[1].pnl = RAdd(RSub(orders[2].executed_price, orders[1].executed_price),
                               RSub(orders[3].executed_price, orders[1].executed_price))
    /\ positions = <<>>

(***************************************************************************)
(* C3.  A position opened by one order of quantity q at fill price e and   *)
(* fully closed by one opposite order of quantity q at fill price x leaves *)
(* the TradeRecord {side, entry = e, exit = x, quantity = q,               *)
(* pnl = (x - e) * q for LONG, (e - x) * q for SHORT} and no position.     *)
(***************************************************************************)
C3_RoundTripRecord ==
    \A t \in DataTokens :
        LET idx == OrdersOf(orders, t) IN
        (/\ Cardinality(idx) = 2
         /\ \E i, j \in idx : /\ i < j
                              /\ orders[i].side # orders[j].side
                              /\ orders[i].quantity = orders[j].quantity)
        => LET i == CHOOSE x \in idx : \A y \in idx : x <= y
               j == CHOOSE x \in idx : \A y \in idx : y <= x
               side == IF orders[i].side = "BUY" THEN "LONG" ELSE "SHORT"
               recs == TradesOf(trade_log, t)
           IN  /\ Cardinality(recs) = 1
               /\ \A r \in recs :
                    /\ trade_log[r].side = side
                    /\ trade_log[r].entry_price = orders[i].executed_price
                    /\ trade_log[r].exit_price = orders[j].executed_price
                    /\ trade_log[r].quantity = orders[i].quantity
                    /\ trade_log[r].pnl = SlicePnl(side, orders[i].executed_price,
                                                   orders[j].executed_price,
                                                   orders[i].quantity)
               /\ ~HasPos(positions, t)

(***************************************************************************)
(* C4.  With starting cash 1,000,000 and zero slippage, after BUY 10 at    *)
(* price 100 the cash balance is 999,000 (the claim says 998,000), and     *)
(* after the following SELL 10 at price 110 it is 1,000,100 (the claim     *)
(* says 999,100).                                                           *)
(***************************************************************************)
\* the order history is BUY 10 of a token at 100
BoughtTen ==
    /\ slippage = RInt(0)
    /\ Len(orders) >= 1
    /\ orders[1].side = "BUY" /\ orders[1].quantity = 10
    /\ orders[1].price = RInt(100)

\* ... followed by SELL 10 of the same token at 110
ThenSoldTen ==
    /\ BoughtTen
    /\ Len(orders) = 2
    /\ orders[2].side = "SELL" /\ orders[2].quantity = 10
    /\ orders[2].token = orders[1].token
    /\ orders[2].price = RInt(110)

C4_ScenarioCash ==
    /\ (BoughtTen /\ Len(orders) = 1) => cash = RInt(999000)
    /\ ThenSoldTen => cash = RInt(1000100)

C4_Witness == ThenSoldTen /\ positions = <<>>

\* the claim as written
C4_Original ==
    /\ (BoughtTen /\ Len(orders) = 1) => cash = RInt(998000)
    /\ ThenSoldTen => cash = RInt(999100)

(***************************************************************************)
(* C5.  After same-direction fills on one token, starting from no          *)
(* position, the Position's quantity is the sum of the order quantities    *)
(* and entry_price * quantity is the sum of fill_price_i * quantity_i.     *)
(***************************************************************************)
\* every order the token ever had is on one side
OneSided(t) ==
    /\ OrdersOf(orders, t) # {}
    /\ \A i, j \in OrdersOf(orders, t) : orders[i].side = orders[j].side

C5_Inv ==
    \A t \in DataTokens :
        OneSided(t) =>
            LET idx == OrdersOf(orders, t)
                pos == PosOf(positions, t)
            IN  /\ HasPos(positions, t)
                /\ pos.side = (IF \E i \in idx : orders[i].side = "BUY"
                               THEN "LONG" ELSE "SHORT")
                /\ RInt(pos.quantity)
                     = SumOver([i \in idx |-> RInt(orders[i].quantity)], idx, RInt(0))
                /\ RScale(pos.entry_price, pos.quantity)
                     = SumOver([i \in idx |-> RScale(orders[i].executed_price,
                                                      orders[i].quantity)],
                               idx, RInt(0))

\* the same, fill by fill, for a position opened at any time: the opening
\* fill sets (quantity, entry) to (q, fill); each same-direction fill adds q
\* to the quantity and fill * q to entry_price * quantity
C5_Step ==
    \A t \in DataTokens : \A k \in OrdersOf(FreshOrders, t) :
        LET o == FreshOrders[k] IN
        IF ~HasPos(positions, t)
        THEN /\ HasPos(positions', t)
             /\ PosOf(positions', t).quantity = o.quantity
             /\ PosOf(positions', t).entry_price = o.executed_price
        ELSE LET pos == PosOf(positions, t) IN
             (~Opposes(pos, o) /\ pos.quantity + o.quantity # 0) =>
                 /\ HasPos(positions', t)
                 /\ PosOf(positions', t).quantity = pos.quantity + o.quantity
                 /\ RScale(PosOf(positions', t).entry_price,
                           PosOf(positions', t).quantity)
                      = RAdd(RScale(pos.entry_price, pos.quantity),
                             RScale(o.executed_price, o.quantity))

C5_WeightedAverageEntry == []C5_Inv /\ [][C5_Step]_vars

\* three buys at two prices: the entry price is strictly between them
C5_Witness ==
    /\ Len(orders) = 3
    /\ \A i \in 1..3 : orders[i].token = 1 /\ orders[i].side = "BUY"
    /\ orders[1].executed_price # orders[3].executed_price
    /\ HasPos(positions, 1)
    /\ PosOf(positions, 1).quantity
         = orders[1].quantity + orders[2].quantity + orders[3].quantity
    /\ PosOf(positions, 1).entry_price \notin
         {orders[1].executed_price, orders[3].executed_price}

(***************************************************************************)
(* C6.  square_off_all(barIndex), called at a bar index not earlier than   *)
(* any open position's entry bar, leaves the mapping empty, places exactly *)
(* one opposing order per previously open token for its full quantity and  *)
(* appends exactly one TradeRecord per previously open token.              *)
(***************************************************************************)
C6_Step ==
    \A d \in 0..(NumBars - 1) :
        (/\ result'.op = "square_off_all"
         /\ SquareOffAllCall(d)
         /\ \A i \in 1..Len(positions) : positions[i].entry_time <= time_index[d + 1])
        => /\ positions' = <<>>
           /\ Len(FreshOrders) = Len(positions)
           /\ Len(FreshTrades) = Len(positions)
           /\ \A i \in 1..Len(positions) :
                LET pos == positions[i] IN
                /\ \E k \in OrdersOf(FreshOrders, pos.token) :
                       /\ Opposes(pos, FreshOrders[k])
                       /\ FreshOrders[k].quantity = pos.quantity
                /\ Cardinality(OrdersOf(FreshOrders, pos.token)) = 1
                /\ Cardinality(TradesOf(FreshTrades, pos.token)) = 1

C6_SquareOffClosesAll == [][C6_Step]_vars

(***************************************************************************)
(* C7.  Every order's executed price is price * (1 + slippage) for a BUY   *)
(* and price * (1 - slippage) for a SELL, price being the market price     *)
(* observed at the order's bar, and cash moves by exactly                  *)
(* executed_price * quantity (down on BUY, up on SELL); with slippage 0.01 *)
(* a BUY of 1 at 100 executes at 101 and cash decreases by 101.            *)
(***************************************************************************)
One == RInt(1)

C7_Inv ==
    /\ \A i \in DOMAIN orders :
         LET o == orders[i] IN
         /\ o.price = GetMarketPrice(o.token, BarOf(o.timestamp)).value
         /\ o.side = "BUY" => o.executed_price = RMul(o.price, RAdd(One, slippage))
         /\ o.side = "SELL" => o.executed_price = RMul(o.price, RSub(One, slippage))
         /\ (slippage = <<1, 100>> /\ o.side = "BUY" /\ o.price = RInt(100))
                => o.executed_price = RInt(101)
    /\ (/\ slippage = <<1, 100>>
        /\ Len(orders) = 1
        /\ orders[1].side = "BUY" /\ orders[1].quantity = 1
        /\ orders[1].price = RInt(100))
       => cash = RSub(starting_cash, RInt(101))

\* what the order moves the cash by
CashMove(o) ==
    IF o.side = "BUY" THEN RNeg(RScale(o.executed_price, o.quantity))
    ELSE RScale(o.executed_price, o.quantity)

C7_Step ==
    cash' = SumOver([k \in DOMAIN FreshOrders |-> CashMove(FreshOrders[k])],
                    DOMAIN FreshOrders, cash)

C7_SlippageAndCash == []C7_Inv /\ [][C7_Step]_vars

C7_Witness ==
    /\ slippage = <<1, 100>>
    /\ Len(orders) = 2
    /\ orders[1].side = "BUY" /\ orders[1].quantity = 1
    /\ orders[1].price = RInt(100) /\ orders[1].executed_price = RInt(101)
    /\ orders[2].side = "SELL" /\ orders[2].price = RInt(110)
    /\ orders[2].executed_price = <<1089, 10>>

(***************************************************************************)
(* C8.  A place_order call whose side is not BUY or SELL, or for which no  *)
(* price is available for the token at the bar, raises an error, and a     *)
(* place_order call that raises leaves the cash balance, the mapping, the  *)
(* order history, the order-id counter and the trade log as they were.     *)
(***************************************************************************)
\* the token's frame has no close at or before the bar
NoCloseAt(token, d) ==
    LET rows == {b \in 0..d : market_data[token][b + 1] # NoRow}
    IN  \/ rows = {}
        \/ \E b \in rows : /\ \A x \in rows : x <= b
                           /\ IsNaN(market_data[token][b + 1])

\* the call is one the claim says fails
MustFail(token, side, d) ==
    \/ side \notin {"BUY", "SELL", "buy", "sell"}
    \/ token \in DataTokens /\ d < Len(time_index) /\ NoCloseAt(token, d)

\* in every state, each such call raises and returns the engine untouched
C8_Inv ==
    \A token \in Tokens, side \in Sides, d \in BarArgs :
        MustFail(token, side, d) =>
            \A quantity \in Quantities :
                LET r == PlaceOrderOn(Sim, token, SymbolOf(token), side, quantity, d)
                IN  r.exc = "ValueError" /\ r.sim = Sim

\* and whatever place_order call raised, the step changed nothing
C8_Step ==
    (result'.op = "place_order" /\ result'.exc # "none") =>
        UNCHANGED <<cash, positions, orders, order_id_counter, trade_log>>

C8_FailedOrderChangesNothing == []C8_Inv /\ [][C8_Step]_vars

\* an order with no price at its bar was refused while a position was open
C8_Witness ==
    /\ result.op = "place_order"
    /\ result.exc = "ValueError"
    /\ Len(orders) = 1
    /\ positions # <<>>
    /\ order_id_counter = 2
    /\ cash # starting_cash

(***************************************************************************)
(* C9.  get_market_price never raises for a token that has market data at  *)
(* a bar of the session: a missing close comes back as nan.  For a token   *)
(* with no market data at all it raises KeyError (the claim says it        *)
(* returns nan for such a token too).                                      *)
(***************************************************************************)
C9_Step ==
    result'.op = "get_market_price" =>
        \A t \in Tokens, d \in Bars :
            GetMarketPriceCall(t, d) =>
                IF t \in DataTokens
                THEN /\ result'.exc = "none"
                     /\ NoCloseAt(t, d) <=> IsNaN(result'.value)
                ELSE result'.exc = "KeyError"

C9_MissingPriceIsNaN == [][C9_Step]_vars

\* a price was asked for a token whose frame has no close yet: nan came back
C9_Witness ==
    /\ result.op = "get_market_price"
    /\ result.exc = "none"
    /\ IsNaN(result.value)
    /\ Len(orders) >= 1

\* the claim as written: never raises, whatever the token
C9_OriginalStep ==
    result'.op = "get_market_price" =>
        \A t \in Tokens, d \in Bars :
            GetMarketPriceCall(t, d) =>
                /\ result'.exc = "none"
                /\ (t \notin DataTokens \/ NoCloseAt(t, d)) => IsNaN(result'.value)

C9_Original == [][C9_OriginalStep]_vars

(***************************************************************************)
(* C10.  run_backtest calls on_start exactly once before any on_bar, then   *)
(* on_bar with the bar indices 0, 1, 2, ... in steps of one, then on_finish *)
(* exactly once after the last on_bar and nothing after it; and every       *)
(* session that has ended is FINISHED, having dispatched every bar or every *)
(* bar before the one at which check_max_loss was true.                     *)
(***************************************************************************)
\* the calls of one callback, in the order made
CallsOf(callback) ==
    LET isIt(c) == c.callback = callback IN SelectSeq(calls, isIt)

\* on_start first and once, on_bar at 0, 1, 2, ..., on_finish once and last
CallbackOrder ==
    /\ calls # <<>> => calls[1] = Call("on_start", 0)
    /\ Len(CallsOf("on_start")) <= 1
    /\ \A k \in DOMAIN CallsOf("on_bar") : CallsOf("on_bar")[k].dt_index = k - 1
    /\ Len(CallsOf("on_finish")) <= 1
    /\ \A k \in DOMAIN calls :
          calls[k].callback = "on_finish" => k = Len(calls)

\* the breaker tripped at the bar after the dispatched ones
TrippedAfterDispatched ==
    /\ Len(calls) >= 2
    /\ calls[Len(calls) - 1] = Call("check_max_loss", Len(CallsOf("on_bar")))

\* run_backtest has returned or an exception has left it
SessionEnded == pc \in {"finished", "aborted"}

C10_SessionContract ==
    /\ CallbackOrder
    /\ SessionEnded =>
          /\ pc = "finished"
          /\ calls[Len(calls)] = Call("on_finish", Len(time_index) - 1)
          /\ Len(CallsOf("on_bar")) = Len(time_index) \/ TrippedAfterDispatched

(***************************************************************************)
(* C11.  Every on_bar(k) run_backtest makes comes directly after its        *)
(* check_max_loss(k); and when check_max_loss is true at the bar the loop   *)
(* is at, the step made there calls no on_bar and leaves the loop, after    *)
(* which no on_bar is called any more.                                      *)
(***************************************************************************)
C11_Inv ==
    \A k \in DOMAIN calls :
        calls[k].callback = "on_bar" =>
            /\ k > 1
            /\ calls[k - 1] = Call("check_max_loss", calls[k].dt_index)

\* the loop is at a bar at which check_max_loss is true
BreakerTrue == pc = "loop" /\ bar < Len(time_index) /\ CheckMaxLoss(Sim, bar)

C11_Step ==
    /\ BreakerTrue =>
          /\ CallsOf("on_bar")' = CallsOf("on_bar")
          /\ pc' = "finish"
    /\ pc \notin {"start", "loop"} =>
          /\ CallsOf("on_bar")' = CallsOf("on_bar")
          /\ pc' \notin {"start", "loop"}

C11_BreakerBeforeDispatch == []C11_Inv /\ [][C11_Step]_vars

\* a session the breaker cut short after at least one dispatched bar, with
\* bars left undispatched
C11_Witness ==
    /\ pc = "finished"
    /\ calls[Len(calls) - 1].callback = "check_max_loss"
    /\ Len(CallsOf("on_bar")) >= 1
    /\ Len(CallsOf("on_bar")) < Len(time_index)

(***************************************************************************)
(* C12.  Once on_finish has returned, in a session of either strategy,      *)
(* run to the last bar or cut short by the breaker, the open-position       *)
(* mapping is empty.                                                        *)
(***************************************************************************)
C12_FlatAfterFinish == pc = "finished" => positions = <<>>

\* a straddle held to the end of a session without a 15:10 bar: neither
\* the stop nor the target was hit (both legs closed at their entry price),
\* and on_finish closed both legs at the last bar
C12_Witness ==
    /\ pc = "finished"
    /\ strategy_name = "straddle"
    /\ Len(CallsOf("on_bar")) = Len(time_index)
    /\ Len(trade_log) = 2
    /\ \A k \in 1..2 : /\ trade_log[k].exit_time = time_index[Len(time_index)]
                       /\ trade_log[k].pnl = RInt(0)
    /\ result.op = "on_finish"

(***************************************************************************)
(* C13.  With a max-daily-loss threshold configured, check_max_loss(bar)    *)
(* returns true exactly when starting_cash - (cash + mark-to-market at the  *)
(* bar) >= max_daily_loss; a loss equal to the threshold trips it.          *)
(***************************************************************************)
\* the open positions that have a price at bar d
PricedAt(d) == {i \in DOMAIN positions : ~NoCloseAt(positions[i].token, d)}

\* the sum of their unrealised PnL at bar d
OpenPnlAt(d) ==
    SumOver([i \in PricedAt(d) |->
                SlicePnl(positions[i].side, positions[i].entry_price,
                         GetMarketPrice(positions[i].token, d).value,
                         positions[i].quantity)],
            PricedAt(d), RInt(0))

\* starting_cash - total_equity(d)
LossAt(d) == RSub(starting_cash, RAdd(cash, OpenPnlAt(d)))

C13_Step ==
    \A d \in Bars :
        (/\ max_daily_loss # None
         /\ result'.op = "check_max_loss"
         /\ CheckMaxLossCall(d)) =>
            /\ result'.exc = "none"
            /\ result'.flag <=> RGe(LossAt(d), max_daily_loss)

C13_BreakerThreshold == [][C13_Step]_vars

\* check_max_loss returned true, and at no bar is the loss above the
\* threshold: the call was made at a bar where the loss equals it
C13_Witness ==
    /\ result.op = "check_max_loss"
    /\ result.exc = "none"
    /\ result.flag
    /\ max_daily_loss # None
    /\ \A d \in Bars : RLe(LossAt(d), max_daily_loss)

(***************************************************************************)
(* C14.  On a Simulator constructed without a max-daily-loss threshold,     *)
(* check_max_loss returns false at every bar in every reachable state,      *)
(* whatever the cash balance and the open positions are.                    *)
(***************************************************************************)
C14_Inv ==
    max_daily_loss = None =>
        \A d \in BarArgs :
            CheckMaxLossOn(Sim, d) = [sim |-> Sim, exc |-> "none", value |-> FALSE]

C14_Step ==
    (max_daily_loss = None /\ result'.op = "check_max_loss") =>
        result'.exc = "none" /\ ~result'.flag

C14_NoThresholdNeverTrips == []C14_Inv /\ [][C14_Step]_vars

\* without a threshold check_max_loss was asked while a long position of
\* quantity 10 was open: the loss is above any of the thresholds of C13
C14_Witness ==
    /\ max_daily_loss = None
    /\ result.op = "check_max_loss"
    /\ ~result.flag
    /\ positions # <<>>
    /\ \A d \in Bars : RGt(LossAt(d), RInt(100))

(***************************************************************************)
(* C15.  check_max_loss, total_equity, mark_to_market and get_market_price  *)
(* are pure queries: a call of any of them, in any reachable state and      *)
(* whether it returns or raises, leaves the cash balance, every open        *)
(* Position, the order history and the trade log as they were.              *)
(***************************************************************************)
QueryOps == {"check_max_loss", "total_equity", "mark_to_market", "get_market_price"}

C15_Inv ==
    \A d \in BarArgs :
        /\ MarkToMarketOn(Sim, d).sim = Sim
        /\ TotalEquityOn(Sim, d).sim = Sim
        /\ CheckMaxLossOn(Sim, d).sim = Sim

C15_Step ==
    result'.op \in QueryOps =>
        UNCHANGED <<cash, positions, orders, trade_log, order_id_counter>>

C15_QueriesArePure == []C15_Inv /\ [][C15_Step]_vars

\* mark_to_market valued two open positions, at least one of them at a
\* price away from its entry price
C15_Witness ==
    /\ result.op = "mark_to_market"
    /\ result.exc = "none"
    /\ Len(positions) = 2
    /\ ~IsNaN(result.value)
    /\ result.value # RInt(0)

(***************************************************************************)
(* C16.  As long as no order has been placed, total_equity(bar) equals      *)
(* starting_cash at every bar index.                                        *)
(***************************************************************************)
C16_Inv ==
    orders = <<>> =>
        \A d \in BarArgs :
            /\ TotalEquityOn(Sim, d).exc = "none"
            /\ TotalEquityOn(Sim, d).value = starting_cash

C16_Step ==
    (orders' = <<>> /\ result'.op = "total_equity") =>
        result'.exc = "none" /\ result'.value = starting_cash

C16_EquityWithoutTrades == []C16_Inv /\ [][C16_Step]_vars

\* total_equity was asked before any order was placed
C16_Witness ==
    /\ orders = <<>>
    /\ result.op = "total_equity"
    /\ result.value = starting_cash

(***************************************************************************)
(* C17.  In the short straddle the stop level is -25% and the target level  *)
(* +50% of the premium collected, the sum of the two legs' executed prices. *)
(* While the straddle is open, the stop/target rule of on_bar closes it     *)
(* through square_off_all exactly when the combined PnL of the two legs is  *)
(* at or below the stop or at or above the target: with premium 20 a PnL of *)
(* -6 closes it and a PnL of -4 does not.  (The 15:10 rule of the same      *)
(* on_bar closes an open straddle whatever the PnL is, so the "does not"    *)
(* half is read at the bars before 15:10.)                                  *)
(***************************************************************************)
\* a step that is the dispatch of on_bar to the straddle
StraddleBar ==
    /\ strategy_name = "straddle"
    /\ calls' = calls \o <<Call("check_max_loss", bar), Call("on_bar", bar)>>

\* the premium, read off the two entry orders
PremiumOfOrders(os) == RAdd(os[1].executed_price, os[2].executed_price)

\* the combined PnL of one short unit of each leg at bar d
CombinedPnl(os, d) ==
    RSub(PremiumOfOrders(os),
         RAdd(GetMarketPrice(CallToken, d).value,
              GetMarketPrice(PutToken, d).value))

StopOf(premium) == RMul(<<-1, 4>>, premium)

TargetOf(premium) == RMul(<<1, 2>>, premium)

LevelHit(os, d) ==
    \/ RLe(CombinedPnl(os, d), StopOf(PremiumOfOrders(os)))
    \/ RGe(CombinedPnl(os, d), TargetOf(PremiumOfOrders(os)))

\* on_bar squared the two legs off and the straddle is closed
StraddleClosedByStep ==
    /\ result'.exc = "none"
    /\ ~strat'.open_trades
    /\ positions' = <<>>
    /\ Len(orders') = Len(orders) + 2
    /\ Len(trade_log') = Len(trade_log) + 2

C17_Inv ==
    (strategy_name = "straddle" /\ strat.open_trades) =>
        /\ Len(orders) >= 2
        /\ strat.premium_collected = PremiumOfOrders(orders)
        /\ strat.stop_loss = StopOf(PremiumOfOrders(orders))
        /\ strat.target = TargetOf(PremiumOfOrders(orders))

C17_Step ==
    (StraddleBar /\ strat.open_trades) =>
        /\ LevelHit(orders, bar) => StraddleClosedByStep
        /\ (~LevelHit(orders, bar) /\ time_index[bar + 1] # StraddleSquareOff) =>
               /\ strat'.open_trades
               /\ UNCHANGED <<positions, orders, trade_log, cash>>

C17_StillOpen ==
    /\ strategy_name = "straddle"
    /\ result.op = "on_bar"
    /\ pc = "loop"
    /\ bar >= 1
    /\ strat.open_trades
    /\ PremiumOfOrders(orders) = RInt(20)
    /\ CombinedPnl(orders, bar - 1) = RInt(-4)
    /\ Len(orders) = 2

(***************************************************************************)
(* C18.  In the mean-reversion strategy, when it is FLAT and a bar has the  *)
(* price at or below the lower band, momentum below 30 and the price above  *)
(* the trend average, on_bar places exactly one BUY and becomes LONG; while *)
(* it is LONG or SHORT no bar's on_bar places a further entry order, even   *)
(* if the entry condition holds again, so the position in the token never   *)
(* exceeds the single entry quantity.  (On the 15:15 bar the square-off     *)
(* rule of the same on_bar follows the entry and sells the unit again.)     *)
(***************************************************************************)
LongSetup(price, ind) ==
    RLe(price, ind.lower) /\ RLt(ind.rsi, RInt(30)) /\ RGt(price, ind.ema)

\* the orders the call that returned r appended to the history of s
OrdersAdded(s, r) == SubSeq(r.sim.orders, Len(s.orders) + 1, Len(r.sim.orders))

SideCount(os, side) == Cardinality({i \in DOMAIN os : os[i].side = side})

IsUnitOrder(o, side, d) ==
    /\ o.token = IndexToken
    /\ o.side = side
    /\ o.quantity = 1
    /\ o.timestamp = time_index[d + 1]

\* on_bar at bar d, called FLAT on the long setup, returned r
EnteredLongOnce(s, d, r) ==
    /\ r.exc = "none"
    /\ SideCount(OrdersAdded(s, r), "BUY") = 1
    /\ IsUnitOrder(OrdersAdded(s, r)[1], "BUY", d)
    /\ \/ /\ Len(OrdersAdded(s, r)) = 1
          /\ r.strat.in_position = "LONG"
          /\ HasPos(r.sim.positions, IndexToken)
          /\ PosOf(r.sim.positions, IndexToken).side = "LONG"
          /\ PosOf(r.sim.positions, IndexToken).quantity = 1
       \/ /\ time_index[d + 1] = MeanReversionSquareOff
          /\ Len(OrdersAdded(s, r)) = 2
          /\ IsUnitOrder(OrdersAdded(s, r)[2], "SELL", d)
          /\ r.strat.in_position = "None"
          /\ ~HasPos(r.sim.positions, IndexToken)

EntrySide(in_position) == IF in_position = "LONG" THEN "BUY" ELSE "SELL"

\* on_bar, called LONG or SHORT, returned r
NoFurtherEntry(s, st, r) ==
    /\ SideCount(OrdersAdded(s, r), EntrySide(st.in_position)) = 0
    /\ Len(OrdersAdded(s, r)) <= 1
    /\ \A i \in DOMAIN r.sim.positions : r.sim.positions[i].quantity <= 1

MeanReversionBar ==
    /\ strategy_name = "mean_reversion"
    /\ calls' = calls \o <<Call("check_max_loss", bar), Call("on_bar", bar)>>

C18_Inv ==
    strategy_name = "mean_reversion" =>
        /\ \A i \in DOMAIN positions :
               positions[i].token = IndexToken /\ positions[i].quantity = 1
        /\ (pc = "loop" /\ bar < Len(time_index)) =>
               \A ind \in IndicatorRows :
                   /\ (strat.in_position = "None"
                       /\ LongSetup(GetMarketPrice(IndexToken, bar).value, ind)) =>
                          EnteredLongOnce(Sim, bar, MROnBar(Sim, strat, bar, ind))
                   /\ strat.in_position # "None" =>
                          NoFurtherEntry(Sim, strat, MROnBar(Sim, strat, bar, ind))

C18_Step ==
    (MeanReversionBar /\ strat.in_position # "None") =>
        /\ \A i \in DOMAIN FreshOrders :
               FreshOrders[i].side # EntrySide(strat.in_position)
        /\ Len(FreshOrders) <= 1

C18_SingleEntry == []C18_Inv /\ [][C18_Step]_vars

\* LONG since bar 0 on a single BUY, and still LONG after bar 1, whose
\* price satisfies the long setup again
C18_Witness ==
    /\ strategy_name = "mean_reversion"
    /\ result.op = "on_bar"
    /\ bar = 2
    /\ strat.in_position = "LONG"
    /\ Len(orders) = 1
    /\ IsUnitOrder(orders[1], "BUY", 0)
    /\ \E ind \in IndicatorRows : LongSetup(GetMarketPrice(IndexToken, 1).value, ind)
    /\ PosOf(positions, IndexToken).quantity = 1

(***************************************************************************)
(* C19.  An order against a position's direction whose quantity exceeds    *)
(* the position's quantity is applied as plain reduction arithmetic: the    *)
(* Position stays in the mapping with its side unchanged and its quantity   *)
(* = old quantity - order quantity (negative), realised PnL is accumulated  *)
(* for the full order quantity, and no TradeRecord is emitted.              *)
(***************************************************************************)
\* the order o takes more than the position pos holds
OverReduces(pos, o) == Opposes(pos, o) /\ o.quantity > pos.quantity

C19_Step ==
    \A t \in DataTokens :
        \A k \in OrdersOf(FreshOrders, t) :
            (HasPos(positions, t) /\ OverReduces(PosOf(positions, t), FreshOrders[k])) =>
                /\ HasPos(positions', t)
                /\ PosOf(positions', t).side = PosOf(positions, t).side
                /\ PosOf(positions', t).quantity =
                       PosOf(positions, t).quantity - FreshOrders[k].quantity
                /\ PosOf(positions', t).quantity < 0
                /\ PosOf(positions', t).entry_price = PosOf(positions, t).entry_price
                /\ PosOf(positions', t).realised_pnl =
                       RAdd(PosOf(positions, t).realised_pnl,
                            SlicePnl(PosOf(positions, t).side,
                                     PosOf(positions, t).entry_price,
                                     FreshOrders[k].executed_price,
                                     FreshOrders[k].quantity))
                /\ TradesOf(FreshTrades, t) = {}

C19_OverReductionArithmetic == [][C19_Step]_vars

\* BUY 1 at 100, then SELL 2 at 110: LONG -1 with realised PnL 20, no record
C19_Witness ==
    /\ Len(orders) = 2
    /\ orders[1].token = 1 /\ orders[1].side = "BUY" /\ orders[1].quantity = 1
    /\ orders[2].token = 1 /\ orders[2].side = "SELL" /\ orders[2].quantity = 2
    /\ orders[1].executed_price = RInt(100)
    /\ orders[2].executed_price = RInt(110)
    /\ HasPos(positions, 1)
    /\ PosOf(positions, 1).side = "LONG"
    /\ PosOf(positions, 1).quantity = -1
    /\ PosOf(positions, 1).realised_pnl = RInt(20)
    /\ trade_log = <<>>

(***************************************************************************)
(* C20.  mark_to_market(barIndex) equals the sum, over the open positions   *)
(* whose price is available at the bar, of (price - entry_price) * quantity *)
(* for a LONG and (entry_price - price) * quantity for a SHORT; a position  *)
(* whose price is unavailable at the bar contributes zero and causes no     *)
(* error.                                                                   *)
(***************************************************************************)
C20_Inv ==
    \A d \in Bars :
        /\ MarkToMarketOn(Sim, d).exc = "none"
        /\ MarkToMarketOn(Sim, d).value = OpenPnlAt(d)

C20_Step ==
    \A d \in Bars :
        (result'.op = "mark_to_market" /\ MarkToMarketCall(d)) =>
            /\ result'.exc = "none"
            /\ result'.value = OpenPnlAt(d)

C20_MarkToMarketSum == []C20_Inv /\ [][C20_Step]_vars

\* token 1 bought at 110 and token 2 held, marked at bar 0, where token 1
\* closes at 100 and token 2 has no row yet: only token 1 is in the sum
C20_Witness ==
    /\ result.op = "mark_to_market"
    /\ result.exc = "none"
    /\ Len(positions) = 2
    /\ HasPos(positions, 1) /\ HasPos(positions, 2)
    /\ PosOf(positions, 1).side = "LONG"
    /\ PosOf(positions, 1).entry_price = RInt(110)
    /\ NoCloseAt(2, 0)
    /\ result.value = RScale(RInt(-10), PosOf(positions, 1).quantity)
    /\ result.value = OpenPnlAt(0)
    /\ OpenPnlAt(1) = RInt(0)

(***************************************************************************)
(* C21.  In the mean-reversion strategy every state transition places       *)
(* exactly one order: one order of the entry quantity on FLAT->LONG or      *)
(* FLAT->SHORT, and one order for the position's full current quantity on   *)
(* LONG->FLAT or SHORT->FLAT; on a bar where both an exit rule and the      *)
(* end-of-session cutoff apply only one exit order is placed, and each exit *)
(* removes the position and emits one TradeRecord.                          *)
(***************************************************************************)
\* lines 98 and 107: the exit rule of the state the strategy is in
ExitRuleHolds(in_position, price, ind) ==
    \/ in_position = "LONG" /\ (RLt(price, ind.ema) \/ RGe(ind.rsi, RInt(50)))
    \/ in_position = "SHORT" /\ (RGt(price, ind.ema) \/ RLe(ind.rsi, RInt(50)))

OtherSide(side) == IF side = "BUY" THEN "SELL" ELSE "BUY"

\* the step is the entry: one order of one unit, no record
EntryStep(to) ==
    /\ Len(FreshOrders) = 1
    /\ FreshOrders[1].token = IndexToken
    /\ FreshOrders[1].side = EntrySide(to)
    /\ FreshOrders[1].quantity = 1
    /\ FreshTrades = <<>>
    /\ HasPos(positions', IndexToken)
    /\ PosOf(positions', IndexToken).side = to

\* the step is the exit: one order for the whole position, which is
\* removed and recorded
ExitStep(from) ==
    /\ Len(FreshOrders) = 1
    /\ FreshOrders[1].token = IndexToken
    /\ FreshOrders[1].side = OtherSide(EntrySide(from))
    /\ HasPos(positions, IndexToken)
    /\ FreshOrders[1].quantity = PosOf(positions, IndexToken).quantity
    /\ ~HasPos(positions', IndexToken)
    /\ Len(FreshTrades) = 1
    /\ FreshTrades[1].instrument = SymbolOf(IndexToken)
    /\ FreshTrades[1].side = from

\* the step enters and leaves within one on_bar (the entry on the cutoff
\* bar): the entry order, then the exit order
EntryAndExitStep ==
    /\ Len(FreshOrders) = 2
    /\ FreshOrders[1].token = IndexToken /\ FreshOrders[2].token = IndexToken
    /\ FreshOrders[1].quantity = 1 /\ FreshOrders[2].quantity = 1
    /\ FreshOrders[2].side = OtherSide(FreshOrders[1].side)
    /\ FreshOrders[1].timestamp = MeanReversionSquareOff
    /\ Len(FreshTrades) = 1
    /\ positions' = positions

C21_Step ==
    strategy_name = "mean_reversion" =>
        IF strat.in_position = "None" /\ strat'.in_position # "None"
        THEN EntryStep(strat'.in_position)
        ELSE IF strat.in_position # "None" /\ strat'.in_position = "None"
        THEN ExitStep(strat.in_position)
        ELSE /\ strat'.in_position = strat.in_position
             /\ \/ FreshOrders = <<>> /\ FreshTrades = <<>>
                \/ strat.in_position = "None" /\ EntryAndExitStep

\* LONG or SHORT on the cutoff bar, with a price and with the exit rule
\* holding as well: on_bar adds one order
C21_Inv ==
    (/\ strategy_name = "mean_reversion"
     /\ pc = "loop"
     /\ bar < Len(time_index)
     /\ time_index[bar + 1] = MeanReversionSquareOff
     /\ ~IsNaN(GetMarketPrice(IndexToken, bar).value)
     /\ strat.in_position # "None") =>
        \A ind \in IndicatorRows :
            ExitRuleHolds(strat.in_position,
                          GetMarketPrice(IndexToken, bar).value, ind) =>
                /\ Len(OrdersAdded(Sim, MROnBar(Sim, strat, bar, ind))) = 1
                /\ MROnBar(Sim, strat, bar, ind).strat.in_position = "None"
                /\ MROnBar(Sim, strat, bar, ind).sim.positions = <<>>

C21_OneOrderPerTransition == []C21_Inv /\ [][C21_Step]_vars

\* entered before the cutoff bar and left on it by a single order, at a
\* price for which an exit rule holds too
C21_Witness ==
    /\ strategy_name = "mean_reversion"
    /\ result.op = "on_bar"
    /\ strat.in_position = "None"
    /\ Len(orders) = 2
    /\ orders[1].timestamp # MeanReversionSquareOff
    /\ orders[2].timestamp = MeanReversionSquareOff
    /\ orders[2].side = OtherSide(orders[1].side)
    /\ orders[2].quantity = orders[1].quantity
    /\ \E ind \in IndicatorRows :
           ExitRuleHolds(trade_log[1].side, orders[2].price, ind)
    /\ Len(trade_log) = 1
    /\ positions = <<>>
    /\ bar = Len(time_index)

(***************************************************************************)
(* C22.  In the mean-reversion strategy, on the bar at the end-of-session   *)
(* cutoff time (15:15) a LONG or SHORT state always transitions to FLAT,    *)
(* regardless of the price and indicator values at that bar: after on_bar   *)
(* returns for the cutoff bar the strategy is FLAT and the engine holds no  *)
(* position in the strategy's token.                                        *)
(***************************************************************************)
C22_Step ==
    (/\ MeanReversionBar
     /\ time_index[bar + 1] = MeanReversionSquareOff
     /\ strat.in_position # "None") =>
        /\ strat'.in_position = "None"
        /\ ~HasPos(positions', IndexToken)

C22_CutoffFlattens == [][C22_Step]_vars

\* the same, on the cutoff bars at which on_bar gets past its two guards:
\* the price is available and no indicator is NaN
C22_Guarded ==
    (/\ strategy_name = "mean_reversion"
     /\ pc = "loop"
     /\ bar < Len(time_index)
     /\ time_index[bar + 1] = MeanReversionSquareOff
     /\ ~IsNaN(GetMarketPrice(IndexToken, bar).value)
     /\ strat.in_position # "None") =>
        \A ind \in IndicatorRows :
            ~(IsNaN(ind.ema) \/ IsNaN(ind.upper) \/ IsNaN(ind.lower) \/ IsNaN(ind.rsi)) =>
                /\ MROnBar(Sim, strat, bar, ind).strat.in_position = "None"
                /\ ~HasPos(MROnBar(Sim, strat, bar, ind).sim.positions, IndexToken)

\* on_bar returned for the cutoff bar and the strategy is still LONG
C22_StillLong ==
    /\ strategy_name = "mean_reversion"
    /\ result.op = "on_bar"
    /\ bar >= 1
    /\ bar <= Len(time_index)
    /\ time_index[bar] = MeanReversionSquareOff
    /\ strat.in_position = "LONG"
    /\ HasPos(positions, IndexToken)
    /\ orders[Len(orders)].timestamp # MeanReversionSquareOff

(***************************************************************************)
(* C23.  In the short-straddle strategy, on the bar at the end-of-session   *)
(* cutoff time (15:10) an OPEN straddle always transitions to IDLE via      *)
(* square_off_all, whatever the legs' prices and PnL are; and on a bar      *)
(* where the stop/target closure and the cutoff both apply, square_off_all  *)
(* is invoked only once.                                                    *)
(***************************************************************************)
\* square_off_all ran once: one closing order and one record per leg
SquaredOffOnce ==
    /\ ~strat'.open_trades
    /\ positions' = <<>>
    /\ Len(FreshOrders) = Len(positions)
    /\ Len(FreshTrades) = Len(positions)

C23_Step ==
    (/\ StraddleBar
     /\ time_index[bar + 1] = StraddleSquareOff
     /\ strat.open_trades) =>
        /\ result'.exc = "none"
        /\ SquaredOffOnce

C23_CutoffClosesStraddle == [][C23_Step]_vars

\* the same on the cutoff bars at which both legs have a price
C23_PricedStep ==
    (/\ StraddleBar
     /\ time_index[bar + 1] = StraddleSquareOff
     /\ strat.open_trades
     /\ ~IsNaN(GetMarketPrice(CallToken, bar).value)
     /\ ~IsNaN(GetMarketPrice(PutToken, bar).value)) =>
        /\ result'.exc = "none"
        /\ SquaredOffOnce

C23_PricedCutoff == [][C23_PricedStep]_vars

\* a level was reached on the cutoff bar and the legs were closed once
C23_BothApply ==
    /\ strategy_name = "straddle"
    /\ result.op = "on_bar"
    /\ result.exc = "none"
    /\ Len(orders) = 4
    /\ orders[3].timestamp = StraddleSquareOff
    /\ PremiumOfOrders(orders) = RInt(20)
    /\ RAdd(orders[3].executed_price, orders[4].executed_price) = RInt(26)
    /\ ~strat.open_trades
    /\ positions = <<>>

\* on_bar of the cutoff bar raised and the straddle is still open
C23_StillOpen ==
    /\ strategy_name = "straddle"
    /\ result.op = "on_bar"
    /\ result.exc = "ValueError"
    /\ time_index[bar + 1] = StraddleSquareOff
    /\ strat.open_trades
    /\ positions # <<>>

(***************************************************************************)
(* C24.  The short-straddle strategy goes IDLE->OPEN only on the bar at the *)
(* designated entry time (09:20) and at most once per session, by placing   *)
(* exactly two orders, SELL 1 of the call then SELL 1 of the put; if the    *)
(* underlying price is unavailable or either option token cannot be         *)
(* resolved, it places no order at all (neither leg) and stays IDLE.        *)
(***************************************************************************)
\* the underlying has no price at bar d, or the directory lacks the call or
\* the put of the ATM strike
EntryBlocked(d) ==
    \/ IsNaN(GetMarketPrice(IndexToken, d).value)
    \/ ~FindOptionToken(NearestStrike(GetMarketPrice(IndexToken, d).value,
                                      StrikeStep), "CE").found
    \/ ~FindOptionToken(NearestStrike(GetMarketPrice(IndexToken, d).value,
                                      StrikeStep), "PE").found

IsSellOfOne(o, token, d) ==
    /\ o.token = token
    /\ o.side = "SELL"
    /\ o.quantity = 1
    /\ o.timestamp = time_index[d + 1]

C24_Step ==
    strategy_name = "straddle" =>
        /\ (~strat.open_trades /\ strat'.open_trades) =>
               /\ StraddleBar
               /\ time_index[bar + 1] = StraddleEntry
               /\ orders = <<>>
               /\ Len(FreshOrders) = 2
               /\ IsSellOfOne(FreshOrders[1], CallToken, bar)
               /\ IsSellOfOne(FreshOrders[2], PutToken, bar)
               /\ ~EntryBlocked(bar)
        /\ (StraddleBar /\ ~strat.open_trades
            /\ (time_index[bar + 1] # StraddleEntry \/ EntryBlocked(bar))) =>
               /\ FreshOrders = <<>>
               /\ ~strat'.open_trades
               /\ UNCHANGED <<positions, cash, trade_log>>
               /\ result'.exc = "none"

C24_EntryOnlyAtEntryTime == [][C24_Step]_vars

\* the two legs were sold at 09:20, the call first
C24_Witness ==
    /\ strategy_name = "straddle"
    /\ result.op = "on_bar"
    /\ strat.open_trades
    /\ Len(orders) = 2
    /\ orders[1].token = CallToken /\ orders[1].side = "SELL"
    /\ orders[2].token = PutToken /\ orders[2].side = "SELL"
    /\ orders[1].timestamp = StraddleEntry
    /\ orders[1].order_id < orders[2].order_id
    /\ Len(positions) = 2

\* the 09:20 bar went by with the put missing from the directory: no order
C24_Skipped ==
    /\ strategy_name = "straddle"
    /\ result.op = "on_bar"
    /\ bar >= 1
    /\ time_index[bar] = StraddleEntry
    /\ ~IsNaN(GetMarketPrice(IndexToken, bar - 1).value)
    /\ EntryBlocked(bar - 1)
    /\ orders = <<>>
    /\ ~strat.open_trades

(***************************************************************************)
(* C25.  The order history and the trade log are append-only: every         *)
(* operation leaves the previous contents as an unchanged prefix, each      *)
(* successful place_order appends exactly one Order with status FILLED, and *)
(* order ids are unique and consecutive starting at 1 in placement order.   *)
(***************************************************************************)
IsPrefix(a, b) == Len(a) <= Len(b) /\ SubSeq(b, 1, Len(a)) = a

C25_Inv ==
    /\ \A i \in DOMAIN orders :
           orders[i].order_id = i /\ orders[i].status = "FILLED"
    /\ order_id_counter = Len(orders) + 1

C25_Step ==
    /\ IsPrefix(orders, orders')
    /\ IsPrefix(trade_log, trade_log')
    /\ (result'.op = "place_order" /\ result' # result) =>
           IF result'.exc = "none"
           THEN /\ Len(orders') = Len(orders) + 1
                /\ orders'[Len(orders')].status = "FILLED"
                /\ result'.value = RInt(orders'[Len(orders')].order_id)
           ELSE orders' = orders

C25_AppendOnlyHistory == []C25_Inv /\ [][C25_Step]_vars

\* a round trip in token 1 by two orders, then token 2 bought and squared
\* off: four orders with ids 1..4, the second record appended after the first
C25_Witness ==
    /\ Len(orders) = 4
    /\ \A i \in 1..4 : orders[i].order_id = i
    /\ orders[1].token = 1 /\ orders[2].token = 1 /\ orders[2].side = "SELL"
    /\ orders[3].token = 2 /\ orders[4].token = 2
    /\ Len(trade_log) = 2
    /\ trade_log[1].instrument = SymbolOf(1)
    /\ trade_log[2].instrument = SymbolOf(2)
    /\ result.op = "square_off_all"

(***************************************************************************)
(* C26.  In every reachable state the cash balance equals starting_cash     *)
(* minus the sum of executed_price * quantity over all BUY orders in the    *)
(* order history plus the sum of executed_price * quantity over all SELL    *)
(* orders in the order history; no operation other than a successful        *)
(* place_order changes cash.                                                *)
(***************************************************************************)
\* the sum of executed_price * quantity over the orders of one side
Turnover(os, side) ==
    SumOver([i \in DOMAIN os |-> RScale(os[i].executed_price, os[i].quantity)],
            {i \in DOMAIN os : os[i].side = side}, RInt(0))

C26_Inv ==
    cash = RAdd(RSub(starting_cash, Turnover(orders, "BUY")),
                Turnover(orders, "SELL"))

C26_Step == cash' # cash => Len(orders') > Len(orders)

C26_CashIdentity == []C26_Inv /\ [][C26_Step]_vars

\* both sides traded, with slippage, and the cash moved
C26_Witness ==
    /\ slippage # RInt(0)
    /\ Len(orders) = 3
    /\ Turnover(orders, "BUY") # RInt(0)
    /\ Turnover(orders, "SELL") # RInt(0)
    /\ Turnover(orders, "BUY") # Turnover(orders, "SELL")
    /\ cash # starting_cash
    /\ positions # <<>>

(***************************************************************************)
(* C27.  Accounting identity: in any state reached by place_order calls     *)
(* with quantity > 0 in which no reducing order exceeds the position it     *)
(* reduces (partial reductions followed by further averaging-in included),  *)
(* whenever the open-position mapping is empty, cash - starting_cash equals *)
(* the sum of pnl over all TradeRecords in the trade log, for any slippage  *)
(* rate.                                                                    *)
(***************************************************************************)
SignedQuantity(o) == IF o.side = "BUY" THEN o.quantity ELSE -o.quantity

RECURSIVE WithinHoldings(_, _, _, _)
\* replaying the orders of one token from order i on, held units being
\* open (negative for a short): every order has a positive quantity and no
\* order against the holding takes more than is held
WithinHoldings(os, token, i, held) ==
    IF i > Len(os) THEN TRUE
    ELSE IF os[i].token # token THEN WithinHoldings(os, token, i + 1, held)
    ELSE /\ os[i].quantity > 0
         /\ (held > 0 /\ os[i].side = "SELL") => os[i].quantity <= held
         /\ (held < 0 /\ os[i].side = "BUY") => os[i].quantity <= -held
         /\ WithinHoldings(os, token, i + 1, held + SignedQuantity(os[i]))

NoOverReduction == \A t \in DataTokens : WithinHoldings(orders, t, 1, 0)

RecordedPnl ==
    SumOver([i \in DOMAIN trade_log |-> trade_log[i].pnl], DOMAIN trade_log, RInt(0))

C27_AccountingIdentity ==
    (positions = <<>> /\ NoOverReduction) =>
        RSub(cash, starting_cash) = RecordedPnl

\* with slippage: BUY 2, SELL 1 (a partial reduction), BUY 1 at another
\* price (averaging in), then the 2 units closed; the record's pnl is the
\* whole change of the cash balance
C27_Witness ==
    /\ slippage # RInt(0)
    /\ Len(orders) = 4
    /\ \A i \in 1..4 : orders[i].token = 1
    /\ orders[1].side = "BUY" /\ orders[1].quantity = 2
    /\ orders[2].side = "SELL" /\ orders[2].quantity = 1
    /\ orders[3].side = "BUY" /\ orders[3].quantity = 1
    /\ orders[3].executed_price # orders[1].executed_price
    /\ orders[4].side = "SELL" /\ orders[4].quantity = 2
    /\ positions = <<>>
    /\ NoOverReduction
    /\ Len(trade_log) = 1
    /\ RecordedPnl # RInt(0)
    /\ RSub(cash, starting_cash) = RecordedPnl

\* the identity without the proviso on over-reduction
C27_Unconditional == positions = <<>> => RSub(cash, starting_cash) = RecordedPnl

(***************************************************************************)
(* C28.  With slippage 0, a place_order call at bar i leaves                *)
(* total_equity(i) unchanged (a fill at the current market price is neither *)
(* a gain nor a loss), so check_max_loss(i) cannot change from false to     *)
(* true merely because a position was opened or increased at bar i.         *)
(***************************************************************************)
\* the Simulator's fields after the step
SimNext == [cash |-> cash', order_id_counter |-> order_id_counter',
            orders |-> orders', positions |-> positions',
            trade_log |-> trade_log']

\* the step is a place_order call that returned
PlacedOrder ==
    /\ result'.op = "place_order"
    /\ result'.exc = "none"
    /\ Len(orders') = Len(orders) + 1

\* the order the step appended opened a position or added to one
OpenedOrIncreased(o) ==
    \/ ~HasPos(positions, o.token)
    \/ ~Opposes(PosOf(positions, o.token), o)

C28_Step ==
    (slippage = RInt(0) /\ PlacedOrder) =>
        /\ TotalEquity(SimNext, BarOf(FreshOrders[1].timestamp))
               = TotalEquity(Sim, BarOf(FreshOrders[1].timestamp))
        /\ (/\ OpenedOrIncreased(FreshOrders[1])
            /\ ~CheckMaxLoss(Sim, BarOf(FreshOrders[1].timestamp))) =>
               ~CheckMaxLoss(SimNext, BarOf(FreshOrders[1].timestamp))

C28_FillKeepsEquity == [][C28_Step]_vars

\* what the code does instead when a position is opened or increased: the
\* order's cost leaves or enters the equity, because the open units are
\* carried at their PnL, not at their value
C28_EquityMovesByCost ==
    [][(slippage = RInt(0) /\ PlacedOrder /\ OpenedOrIncreased(FreshOrders[1])) =>
          TotalEquity(SimNext, BarOf(FreshOrders[1].timestamp))
              = CashAfter(TotalEquity(Sim, BarOf(FreshOrders[1].timestamp)),
                          FreshOrders[1].side,
                          RScale(FreshOrders[1].executed_price,
                                 FreshOrders[1].quantity))]_vars

\* a BUY that opened a position tripped the breaker at its own bar
C28_TrippedByOpening ==
    /\ max_daily_loss # None
    /\ result.op = "place_order"
    /\ Len(orders) = 1
    /\ orders[1].side = "BUY"
    /\ CheckMaxLoss(Sim, BarOf(orders[1].timestamp))
    /\ orders[1].executed_price
           = GetMarketPrice(orders[1].token, BarOf(orders[1].timestamp)).value

(***************************************************************************)
(* C29.  Once the loss breaker trips at bar k trading halts: no order is    *)
(* filled at a bar index greater than k, i.e. every order placed after the  *)
(* trip (including the liquidation done by on_finish) carries bar k's       *)
(* timestamp and price.                                                     *)
(***************************************************************************)
\* the loop was left by the break at the bar the variable bar holds
BreakerTripped == pc = "finish" /\ result.op = "check_max_loss" /\ result.flag

C29_Step ==
    BreakerTripped =>
        \A i \in DOMAIN FreshOrders :
            /\ FreshOrders[i].timestamp = time_index[bar + 1]
            /\ FreshOrders[i].price = GetMarketPrice(FreshOrders[i].token, bar).value

C29_LateFill ==
    /\ pc = "finished"
    /\ calls[Len(calls) - 1].callback = "check_max_loss"
    /\ calls[Len(calls) - 1].dt_index < Len(time_index) - 1
    /\ orders # <<>>
    /\ orders[Len(orders)].timestamp = time_index[Len(time_index)]
    /\ orders[Len(orders)].timestamp > time_index[calls[Len(calls) - 1].dt_index + 1]

\* what holds instead: the orders placed after the trip carry the last
\* bar's timestamp and price
C29_FillsAtLastBar ==
    [][BreakerTripped =>
          \A i \in DOMAIN FreshOrders :
              /\ FreshOrders[i].timestamp = time_index[Len(time_index)]
              /\ FreshOrders[i].price
                     = GetMarketPrice(FreshOrders[i].token, Len(time_index) - 1).value]_vars

(***************************************************************************)
(* C30.  Mean-reversion strategy/engine agreement: at the return of every   *)
(* on_bar call, in a session where only this strategy places orders, the    *)
(* strategy's in_position is LONG (resp. SHORT) if and only if the engine's *)
(* mapping holds a LONG (resp. SHORT) position in the strategy's token, and *)
(* in_position is None if and only if the mapping holds no position in it.  *)
(***************************************************************************)
\* the side of the engine's position in the token, "None" without one
HeldSide(ps, token) == IF HasPos(ps, token) THEN PosOf(ps, token).side ELSE "None"

C30_StrategyAgreesWithEngine ==
    (strategy_name = "mean_reversion" /\ result.op = "on_bar") =>
        /\ result.exc = "none"
        /\ strat.in_position = HeldSide(positions, IndexToken)

\* on_bar returned with the strategy SHORT and the engine short one unit
C30_Witness ==
    /\ strategy_name = "mean_reversion"
    /\ result.op = "on_bar"
    /\ strat.in_position = "SHORT"
    /\ HeldSide(positions, IndexToken) = "SHORT"
    /\ PosOf(positions, IndexToken).quantity = 1
    /\ Len(orders) = 3

(***************************************************************************)
(* C31.  Short-straddle strategy/engine agreement: at the return of every   *)
(* on_bar call that completes without error, open_trades is true if and     *)
(* only if the engine's mapping holds exactly the call leg and the put leg, *)
(* both SHORT with quantity 1, and open_trades is false if and only if the  *)
(* mapping is empty; the straddle is never left with exactly one leg open.  *)
(***************************************************************************)
IsShortLeg(ps, token) ==
    /\ HasPos(ps, token)
    /\ PosOf(ps, token).side = "SHORT"
    /\ PosOf(ps, token).quantity = 1

\* the mapping holds the call leg and the put leg and nothing else
BothLegsOpen ==
    /\ Len(positions) = 2
    /\ IsShortLeg(positions, CallToken)
    /\ IsShortLeg(positions, PutToken)

\* the agreement at the return of an on_bar that completed without error
C31_AtReturn ==
    (strategy_name = "straddle" /\ result.op = "on_bar" /\ result.exc = "none") =>
        /\ strat.open_trades <=> BothLegsOpen
        /\ ~strat.open_trades <=> positions = <<>>

\* no state of a straddle session has exactly one leg open
C31_NoSingleLeg == strategy_name = "straddle" => Len(positions) # 1

C31_StraddleAgreesWithEngine == C31_AtReturn /\ C31_NoSingleLeg

\* the call was sold and the put order raised: one leg open, flag off
C31_NakedCall ==
    /\ strategy_name = "straddle"
    /\ result.op = "on_bar"
    /\ result.exc = "ValueError"
    /\ Len(orders) = 1
    /\ ~strat.open_trades
    /\ Len(positions) = 1
    /\ IsShortLeg(positions, CallToken)

\* the 15:10 square-off bought the call back and raised on the put: one
\* leg open, flag on
C31_HalfSquaredOff ==
    /\ strategy_name = "straddle"
    /\ result.op = "on_bar"
    /\ result.exc = "ValueError"
    /\ Len(orders) = 3
    /\ strat.open_trades
    /\ Len(positions) = 1
    /\ IsShortLeg(positions, PutToken)

(***************************************************************************)
(* C32.  After the mean-reversion strategy's end-of-session cutoff bar      *)
(* (15:15), no new position is opened: on every later bar of the session no *)
(* entry order is placed and the engine holds no position in the strategy's *)
(* token.                                                                   *)
(***************************************************************************)
\* bar d of the session lies after the 15:15 bar
AfterCutoff(d) == time_index[d + 1] > MeanReversionSquareOff

C32_Step ==
    (MeanReversionBar /\ AfterCutoff(bar)) =>
        /\ FreshOrders = <<>>
        /\ ~HasPos(positions', IndexToken)
        /\ strat'.in_position = "None"

C32_NoEntryAfterCutoff == [][C32_Step]_vars

\* FLAT through the 15:15 bar, then a BUY on the 15:16 bar
C32_LateEntry ==
    /\ strategy_name = "mean_reversion"
    /\ result.op = "on_bar"
    /\ Len(orders) = 1
    /\ orders[1].side = "BUY"
    /\ orders[1].timestamp = MeanReversionSquareOff + 1
    /\ strat.in_position = "LONG"
    /\ HasPos(positions, IndexToken)

\* what holds instead: after the cutoff the entry rules are the ones of any
\* other bar, so a FLAT strategy enters on the long setup
C32_EntersAsBefore ==
    (/\ strategy_name = "mean_reversion"
     /\ pc = "loop"
     /\ bar < Len(time_index)
     /\ AfterCutoff(bar)
     /\ strat.in_position = "None") =>
        \A ind \in IndicatorRows :
            LongSetup(GetMarketPrice(IndexToken, bar).value, ind) =>
                EnteredLongOnce(Sim, bar, MROnBar(Sim, strat, bar, ind))

=============================================================================
